---- MODULE Spec2Model ----
(***************************************************************************)
(* A model of estafette-extension-docker: the orchestration of docker      *)
(* build / push / tag / history commands (main), credential resolution     *)
(* (getCredentialsForContainers, isAllowedPipelineForPush, loginIfRequired)*)
(* and the helpers they use.                                               *)
(*                                                                         *)
(* Go strings are modelled as sequences of one-character strings, so that  *)
(* splitting, joining, trimming and matching are computed as the code      *)
(* computes them.  "abc" of the program is <<"a","b","c">> here.           *)
(***************************************************************************)
EXTENDS Integers, Sequences, FiniteSets, TLC

(***************************************************************************)
(* String helpers (package strings / fmt of the Go standard library).      *)
(***************************************************************************)

\* index of the first occurrence of the character sep in s, 0 when absent
IndexOf(s, sep) ==
    IF \E i \in 1..Len(s) : s[i] = sep
    THEN CHOOSE i \in 1..Len(s) : s[i] = sep /\ \A j \in 1..(i - 1) : s[j] # sep
    ELSE 0

\* strings.Split(s, sep) for a one-character separator
RECURSIVE Split(_, _)
Split(s, sep) ==
    LET i == IndexOf(s, sep)
    IN  IF i = 0 THEN <<s>>
        ELSE <<SubSeq(s, 1, i - 1)>> \o Split(SubSeq(s, i + 1, Len(s)), sep)

\* strings.Join(parts, sep)
RECURSIVE Join(_, _)
Join(parts, sep) ==
    IF Len(parts) = 0 THEN <<>>
    ELSE IF Len(parts) = 1 THEN parts[1]
    ELSE parts[1] \o <<sep>> \o Join(Tail(parts), sep)

\* strings.Contains(s, c) for a one-character c
Contains(s, c) == \E i \in 1..Len(s) : s[i] = c

\* strings.Count(s, c) for a one-character c
Count(s, c) == Cardinality({i \in 1..Len(s) : s[i] = c})

\* the white space of unicode.IsSpace that occurs in the modelled inputs
WhiteSpace == {" ", "\t", "\n", "\r"}

\* strings.TrimSpace(s)
RECURSIVE TrimLeft(_)
TrimLeft(s) ==
    IF Len(s) > 0 /\ s[1] \in WhiteSpace THEN TrimLeft(Tail(s)) ELSE s

RECURSIVE TrimRight(_)
TrimRight(s) ==
    IF Len(s) > 0 /\ s[Len(s)] \in WhiteSpace
    THEN TrimRight(SubSeq(s, 1, Len(s) - 1)) ELSE s

TrimSpace(s) == TrimRight(TrimLeft(s))

\* fmt.Sprintf("%v/%v:%v", r, c, t)
ImagePath(r, c, t) == r \o <<"/">> \o c \o <<":">> \o t

\* fmt.Sprintf("%v/%v/%v", a, b, c)
SlashJoin3(a, b, c) == a \o <<"/">> \o b \o <<"/">> \o c

(***************************************************************************)
(* regexp.Match for the pattern syntax that occurs in the modelled         *)
(* allow-lists: literal characters, "." (any character but a line break),  *)
(* a postfix "*" on a one-character atom, the anchors "^" and "$" (no      *)
(* multi-line flag: begin and end of the text) and "|", which binds        *)
(* weakest.  A match may start at any position of the text.                *)
(***************************************************************************)
CharMatches(p, c) == IF p = "." THEN c # "\n" ELSE p = c

RECURSIVE MatchHere(_, _, _)
RECURSIVE MatchStar(_, _, _, _)
MatchHere(re, text, i) ==
    IF Len(re) = 0 THEN TRUE
    ELSE IF Len(re) >= 2 /\ re[2] = "*"
         THEN MatchStar(re[1], SubSeq(re, 3, Len(re)), text, i)
    ELSE IF re[1] = "^" THEN i = 1 /\ MatchHere(Tail(re), text, i)
    ELSE IF re[1] = "$" THEN i = Len(text) + 1 /\ MatchHere(Tail(re), text, i)
    ELSE /\ i <= Len(text)
         /\ CharMatches(re[1], text[i])
         /\ MatchHere(Tail(re), text, i + 1)

MatchStar(c, re, text, i) ==
    \E k \in i..(Len(text) + 1) :
        /\ \A j \in i..(k - 1) : CharMatches(c, text[j])
        /\ MatchHere(re, text, k)

regexpMatch(pattern, text) ==
    LET alts == Split(pattern, "|")
    IN  \E a \in 1..Len(alts) : \E i \in 1..(Len(text) + 1) :
            MatchHere(alts[a], text, i)

(***************************************************************************)
(* Credentials.  A ContainerRegistryCredentials value is a record          *)
(*   [name, repository, username, password, allowedPipelinesToPush,        *)
(*    trivyVulnerabilityDBGCSBucket]                                       *)
(* of strings (its AdditionalProperties flattened).                        *)
(***************************************************************************)

\* the part of an image reference before its last "/": lines 1059-1060
containerRepoOf(ci) ==
    LET containerImageSlice == Split(ci, "/")
    IN  Join(SubSeq(containerImageSlice, 1, Len(containerImageSlice) - 1), "/")

\* strings.HasPrefix(s, prefix)
HasPrefix(s, prefix) ==
    Len(prefix) <= Len(s) /\ SubSeq(s, 1, Len(prefix)) = prefix

credentialMatches_Prefix(containerRepo, credential) ==
    HasPrefix(containerRepo, credential.repository)

\* the test of line 1069
credentialMatches(containerRepo, credential) ==
    containerRepo = credential.repository

\* the inner loop of lines 1068-1075: index of the first matching credential, 0 if none
firstCredentialFor(credentials, containerRepo) ==
    LET S == {i \in 1..Len(credentials) : credentialMatches(containerRepo, credentials[i])}
    IN  IF S = {} THEN 0 ELSE CHOOSE i \in S : \A j \in S : i <= j

EmptyMap == [k \in {} |-> <<>>]

RECURSIVE filterCredentials_KeyedByImage(_, _, _)
filterCredentials_KeyedByImage(credentials, containerImages, filteredCredentialsMap) ==
    IF Len(containerImages) = 0 THEN filteredCredentialsMap
    ELSE LET ci == Head(containerImages)
             k == firstCredentialFor(credentials, containerRepoOf(ci))
         IN  IF ci \in DOMAIN filteredCredentialsMap \/ k = 0
             THEN filterCredentials_KeyedByImage(credentials, Tail(containerImages),
                                                 filteredCredentialsMap)
             ELSE filterCredentials_KeyedByImage(credentials, Tail(containerImages),
                      filteredCredentialsMap @@ (ci :> credentials[k]))

\* lines 1056-1077
RECURSIVE filterCredentials(_, _, _)
filterCredentials(credentials, containerImages, filteredCredentialsMap) ==
    IF Len(containerImages) = 0 THEN filteredCredentialsMap
    ELSE LET containerRepo == containerRepoOf(Head(containerImages))
             rest == Tail(containerImages)
             k == firstCredentialFor(credentials, containerRepo)
         IN  IF containerRepo \in DOMAIN filteredCredentialsMap
             THEN filterCredentials(credentials, rest, filteredCredentialsMap)
             ELSE IF k = 0
             THEN filterCredentials(credentials, rest, filteredCredentialsMap)
             ELSE filterCredentials(credentials, rest,
                      filteredCredentialsMap @@
                          (credentials[k].repository :> credentials[k]))

\* a map from repository to credential, as a function
getCredentialsForContainers(credentials, containerImages) ==
    filterCredentials(credentials, containerImages, EmptyMap)

isAllowedPipelineForPush(credential, fullRepositoryPath) ==
    IF credential.allowedPipelinesToPush = <<>> THEN TRUE
    ELSE LET pattern == <<"^">> \o TrimSpace(credential.allowedPipelinesToPush) \o <<"$">>
         IN  regexpMatch(pattern, fullRepositoryPath)

(***************************************************************************)
(* tidyTag                                                                 *)
(***************************************************************************)
Digits == {"0", "1", "2", "3", "4", "5", "6", "7", "8", "9"}
LowerCase == {"a", "b", "c", "d", "e", "f", "g", "h", "i", "j", "k", "l", "m",
              "n", "o", "p", "q", "r", "s", "t", "u", "v", "w", "x", "y", "z"}
UpperCase == {"A", "B", "C", "D", "E", "F", "G", "H", "I", "J", "K", "L", "M",
              "N", "O", "P", "Q", "R", "S", "T", "U", "V", "W", "X", "Y", "Z"}

\* the class [a-zA-Z0-9_.\-] of the first expression of tidyTag
TagChars == LowerCase \cup UpperCase \cup Digits \cup {"_", ".", "-"}

\* the class [_.\-] of the second expression of tidyTag
LeadChars == {"_", ".", "-"}

\* and may contain a maximum of 128 characters
MaxTagLength == 128

replaceDisallowedRuns_EachCharacter(tag) ==
    [i \in DOMAIN tag |-> IF tag[i] \in TagChars THEN tag[i] ELSE "-"]

truncateTag_Never(tag) == tag

\* regexp `[^a-zA-Z0-9_.\-]+` replaced by "-": every maximal run becomes one dash.
\* The two halves of the tag are taken one after the other; a run that goes on
\* from the first half into the second is one run and gives one dash.
RECURSIVE replaceDisallowedRuns(_)
replaceDisallowedRuns(tag) ==
    IF Len(tag) = 0 THEN <<>>
    ELSE IF Len(tag) = 1 THEN (IF tag[1] \in TagChars THEN tag ELSE <<"-">>)
    ELSE LET half == Len(tag) \div 2
             head == replaceDisallowedRuns(SubSeq(tag, 1, half))
             rest == replaceDisallowedRuns(SubSeq(tag, half + 1, Len(tag)))
         IN  IF tag[half] \notin TagChars /\ tag[half + 1] \notin TagChars
             THEN head \o Tail(rest)
             ELSE head \o rest

\* regexp `$[_.\-]+` replaced by "": "$" (no multi-line flag) holds only at the
\* end of the text, and the class must match at least one character after it
replaceAfterEndOfText(tag) ==
    LET starts == {i \in 1..(Len(tag) + 1) :
                      /\ i = Len(tag) + 1
                      /\ i <= Len(tag)
                      /\ tag[i] \in LeadChars}
    IN  IF starts = {} THEN tag
        ELSE SubSeq(tag, 1, (CHOOSE i \in starts : \A k \in starts : i <= k) - 1)

\* lines 1190-1192
truncateTag(tag) ==
    IF Len(tag) > MaxTagLength THEN SubSeq(tag, 1, MaxTagLength) ELSE tag

tidyTag(tag) == truncateTag(replaceAfterEndOfText(replaceDisallowedRuns(tag)))

(***************************************************************************)
(* The program state.                                                      *)
(*   cfg     the flags and environment main() reads (fixed during a run)   *)
(*   pc      the position of main()                                        *)
(*   idx     the index of the repository / stage loop ("i", "index")       *)
(*   tidx    the index of the loop over tagsSlice                          *)
(*   log     the external commands issued so far, each with its exit code  *)
(*   exit    how the process ended: status "running", "success", "fatal"   *)
(*           or "panic", and for "fatal" the kind of diagnostic            *)
(*   fromImagePaths, dockerLayerCachingPaths, bucketName                   *)
(*           the locals of the build action                                *)
(*   inflight  the external commands that have been started and have not   *)
(*           ended yet                                                     *)
(*   signal  a termination signal has arrived: the context is cancelled    *)
(*   call    a single call of one function of the program, with its        *)
(*           arguments and, once made, its result (used by the             *)
(*           specifications of the functions; idle while main runs)        *)
(***************************************************************************)
VARIABLES cfg, pc, idx, tidx, log, exit,
          fromImagePaths, dockerLayerCachingPaths, bucketName, call,
          inflight, signal

vars == <<cfg, pc, idx, tidx, log, exit,
          fromImagePaths, dockerLayerCachingPaths, bucketName, call,
          inflight, signal>>

buildLocals == <<fromImagePaths, dockerLayerCachingPaths, bucketName>>

Arg(f, v) == [f |-> f, v |-> v]

\* an external command; ctx: it is run under the cancellation context
\* (exec.CommandContext); signalled: "no", "before" when the signal had arrived
\* before the command was started, "inflight" when it arrived while it ran
Cmd(prog, verb, args, ctx) ==
    [prog |-> prog, verb |-> verb, args |-> args, ctx |-> ctx,
     images |-> <<>>, code |-> 0, signalled |-> "no"]

\* the exit code reported for a process that was killed
Killed == -1

Running == exit.status = "running"

\* log.Fatal / foundation.HandleError(err) with err != nil
Fatal(kind) ==
    /\ exit' = [status |-> "fatal", kind |-> kind]
    /\ pc' = "exit"

Success ==
    /\ exit' = [status |-> "success", kind |-> ""]
    /\ pc' = "exit"

\* how a command that was started can end: a command under the context is
\* killed when the context is cancelled while it runs
Outcomes(c, codes) == IF c.ctx /\ c.signalled = "inflight" THEN {Killed} ELSE codes

\* cmd.Run() of os/exec: the command is started and main waits for its end,
\* then handles the result with Return; under a cancelled context Start
\* returns the error of the context and no process is started
Exec(cmd, codes, Return(_)) ==
    IF inflight = {}
    THEN IF cmd.ctx /\ signal
         THEN Return(Killed) /\ UNCHANGED <<log, inflight>>
         ELSE /\ inflight' = {[cmd EXCEPT !.signalled = IF signal THEN "before" ELSE "no"]}
              /\ UNCHANGED <<pc, idx, tidx, log, exit>>
    ELSE \E c \in inflight : \E code \in Outcomes(c, codes) :
            /\ inflight' = inflight \ {c}
            /\ log' = Append(log, [c EXCEPT !.code = code])
            /\ Return(code)

Run_IgnoringExit(cmd, Cont) ==
    Exec(cmd, {0, 1}, LAMBDA code : Cont /\ UNCHANGED exit)

Run_WithoutWaiting(cmd, Cont) ==
    /\ inflight' = inflight \cup {cmd}
    /\ Cont
    /\ UNCHANGED <<log, exit>>

\* foundation.RunCommandWithArgs(ctx, ...) and exec.Command(...).Run() followed by
\* HandleError: the command runs to its end; a non-zero exit is fatal
Run(cmd, Cont) ==
    Exec(cmd, {0, 1},
         LAMBDA code : IF code = 0 THEN Cont /\ UNCHANGED exit
                       ELSE Fatal("command") /\ UNCHANGED <<idx, tidx>>)

\* the parts are tidied apart and then put together
estafetteBuildVersionAsTag_PartsApart ==
    (IF cfg.versionTagPrefix # <<>> THEN tidyTag(cfg.versionTagPrefix) \o <<"-">> ELSE <<>>)
    \o tidyTag(cfg.estafetteBuildVersion)
    \o (IF cfg.versionTagSuffix # <<>> THEN <<"-">> \o tidyTag(cfg.versionTagSuffix) ELSE <<>>)

\* main, lines 549-555
estafetteBuildVersionAsTag ==
    LET v0 == tidyTag(cfg.estafetteBuildVersion)
        v1 == IF cfg.versionTagPrefix # <<>>
              THEN tidyTag(cfg.versionTagPrefix \o <<"-">> \o v0) ELSE v0
    IN  IF cfg.versionTagSuffix # <<>>
        THEN tidyTag(v1 \o <<"-">> \o cfg.versionTagSuffix) ELSE v1

\* main, lines 480-485: the defaults of *container
container ==
    IF cfg.containerFlag = <<>> /\ cfg.appLabel = <<>> /\ cfg.gitName # <<>> THEN cfg.gitName
    ELSE IF cfg.containerFlag = <<>> /\ cfg.appLabel # <<>> THEN cfg.appLabel
    ELSE cfg.containerFlag

\* main, lines 532-547: the comma-separated flags as slices (nil for an empty flag)
repositoriesSlice == IF cfg.repositories # <<>> THEN Split(cfg.repositories, ",") ELSE <<>>
tagsSlice == IF cfg.tags # <<>> THEN Split(cfg.tags, ",") ELSE <<>>
argsSlice == IF cfg.args # <<>> THEN Split(cfg.args, ",") ELSE <<>>

\* loginIfRequired, line 1155
fullRepositoryPath == SlashJoin3(cfg.gitSource, cfg.gitOwner, cfg.gitName)

loginArgs_AlwaysServer(c) ==
    <<Arg("--username", c.username), Arg("--password", c.password),
      Arg("", Split(c.repository, "/")[1])>>

\* loginIfRequired, lines 1162-1174
loginArgs(c) ==
    LET repositorySlice == Split(c.repository, "/")
    IN  <<Arg("--username", c.username), Arg("--password", c.password)>> \o
        (IF Len(repositorySlice) > 1 THEN <<Arg("", repositorySlice[1])>> ELSE <<>>)

Range(f) == {f[x] : x \in DOMAIN f}

\* the allow-list is applied to every login
skipsLogin_AnyLogin(push, c) == ~isAllowedPipelineForPush(c, fullRepositoryPath)

\* loginIfRequired, line 1156: the credential is passed over
skipsLogin(push, c) == push /\ ~isAllowedPipelineForPush(c, fullRepositoryPath)

\* the credentials loginIfRequired logs in with for these images
credentialsToLogin(push, containerImages) ==
    {c \in Range(getCredentialsForContainers(cfg.credentials, containerImages)) :
        ~skipsLogin(push, c)}

\* loginIfRequired(credentials, push, image): every call of main passes one image,
\* so the filtered map holds at most one credential and at most one login is run
LoginIfRequired(push, image, Cont) ==
    LET cs == credentialsToLogin(push, <<image>>)
    IN  IF cs = {} THEN Cont /\ UNCHANGED <<log, inflight, exit>>
        ELSE LET c == CHOOSE c \in cs : TRUE
                 cmd == [Cmd("docker", "login", loginArgs(c), FALSE)
                             EXCEPT !.images = <<image>>]
             IN  Run(cmd, Cont)

Goto(l) == pc' = l /\ UNCHANGED <<idx, tidx>>

(***************************************************************************)
(* main: start, and the actions push, tag and history.                     *)
(***************************************************************************)

repositoriesAreValid_Always == TRUE

\* validateRepositories, lines 1046-1050
repositoriesAreValid == ~(cfg.repositories = <<>> /\ cfg.action # "history")

\* main up to the switch on *action (lines 459-557)
Begin ==
    /\ pc = "start"
    /\ UNCHANGED <<cfg, call, signal, log, inflight, buildLocals>>
    /\ IF ~repositoriesAreValid THEN Fatal("configuration") /\ UNCHANGED <<idx, tidx>>
       ELSE IF cfg.action \in {"build", "push", "tag", "history"}
       THEN /\ pc' = cfg.action
            /\ idx' = 1
            /\ tidx' = 1
            /\ UNCHANGED exit
       ELSE IF cfg.action \in {"dive", "trivy"}
       THEN Success /\ UNCHANGED <<idx, tidx>>
       ELSE Fatal("configuration") /\ UNCHANGED <<idx, tidx>>

\* the source taken from the repository the loop is at
sourceContainerPath_OfCurrentRepository ==
    ImagePath(repositoriesSlice[IF idx \in DOMAIN repositoriesSlice THEN idx ELSE 1],
              container, estafetteBuildVersionAsTag)

\* fmt.Sprintf("%v/%v:%v", repositoriesSlice[0], *container, estafetteBuildVersionAsTag)
sourceContainerPath == ImagePath(repositoriesSlice[1], container, estafetteBuildVersionAsTag)

\* the path of the current repository with the version tag
targetContainerPath == ImagePath(repositoriesSlice[idx], container, estafetteBuildVersionAsTag)

\* the path of the current repository with the current additional tag
targetTagPath == ImagePath(repositoriesSlice[idx], container, tagsSlice[tidx])

TagCmd(src, dst, ctx) == Cmd("docker", "tag", <<Arg("", src), Arg("", dst)>>, ctx)
PushCmd(image) == Cmd("docker", "push", <<Arg("", image)>>, TRUE)
PullCmd(image) == Cmd("docker", "pull", <<Arg("", image)>>, TRUE)

---------------------------------------------------------------------------
\* case "push", lines 841-905

\* the head of the loop over repositoriesSlice and the tag of lines 848-858,
\* which is run by exec.Command without the cancellation context
PushRepository ==
    /\ pc = "push"
    /\ UNCHANGED <<cfg, call, signal, buildLocals>>
    /\ IF idx > Len(repositoriesSlice) THEN Success /\ UNCHANGED <<idx, tidx, log, inflight>>
       ELSE IF idx > 1
       THEN Run(TagCmd(sourceContainerPath, targetContainerPath, FALSE), Goto("push_login"))
       ELSE Goto("push_login") /\ UNCHANGED <<log, inflight, exit>>

\* line 860
PushLogin ==
    /\ pc = "push_login"
    /\ UNCHANGED <<cfg, call, signal, buildLocals>>
    /\ LoginIfRequired(TRUE, targetContainerPath, Goto("push_version"))

\* lines 862-872
PushVersionTag ==
    /\ pc = "push_version"
    /\ UNCHANGED <<cfg, call, signal, buildLocals>>
    /\ IF cfg.pushVersionTag
       THEN Run(PushCmd(targetContainerPath), Goto("push_check"))
       ELSE Goto("push_check") /\ UNCHANGED <<log, inflight, exit>>

\* the condition of line 874
pushNeedsTag == ~cfg.pushVersionTag /\ Len(tagsSlice) = 0

\* lines 874-876
PushCheckTags ==
    /\ pc = "push_check"
    /\ UNCHANGED <<cfg, call, signal, log, inflight, buildLocals>>
    /\ IF pushNeedsTag
       THEN Fatal("configuration") /\ UNCHANGED <<idx, tidx>>
       ELSE pc' = "push_tags" /\ tidx' = 1 /\ UNCHANGED <<idx, exit>>

pushSkipsTag_Never(r, t) == FALSE

\* the condition of line 881
pushSkipsTag(r, t) == r = repositoriesSlice[1] /\ t = estafetteBuildVersionAsTag

\* the head of the loop over tagsSlice and the tag of lines 885-894
PushAdditionalTag ==
    /\ pc = "push_tags"
    /\ UNCHANGED <<cfg, call, signal, buildLocals>>
    /\ IF tidx > Len(tagsSlice)
       THEN pc' = "push" /\ idx' = idx + 1 /\ UNCHANGED <<tidx, log, inflight, exit>>
       ELSE IF pushSkipsTag(repositoriesSlice[idx], tagsSlice[tidx])
       THEN pc' = "push_tags" /\ tidx' = tidx + 1 /\ UNCHANGED <<idx, log, inflight, exit>>
       ELSE Run(TagCmd(sourceContainerPath, targetTagPath, TRUE), Goto("push_tag_login"))

\* line 896
PushTagLogin ==
    /\ pc = "push_tag_login"
    /\ UNCHANGED <<cfg, call, signal, buildLocals>>
    /\ LoginIfRequired(TRUE, targetTagPath, Goto("push_tag_push"))

\* lines 898-903
PushTagPush ==
    /\ pc = "push_tag_push"
    /\ UNCHANGED <<cfg, call, signal, buildLocals>>
    /\ Run(PushCmd(targetTagPath),
           pc' = "push_tags" /\ tidx' = tidx + 1 /\ UNCHANGED idx)

---------------------------------------------------------------------------
\* case "tag", lines 918-979

\* line 920
TagLoginSource ==
    /\ pc = "tag"
    /\ UNCHANGED <<cfg, call, signal, buildLocals>>
    /\ LoginIfRequired(FALSE, sourceContainerPath, Goto("tag_pull"))

TagPullSource_Skipped ==
    /\ pc = "tag_pull"
    /\ UNCHANGED <<cfg, call, signal, buildLocals, log, inflight, exit>>
    /\ Goto("tag_repo")

\* lines 923-928
TagPullSource ==
    /\ pc = "tag_pull"
    /\ UNCHANGED <<cfg, call, signal, buildLocals>>
    /\ Run(PullCmd(sourceContainerPath), Goto("tag_repo"))

\* the head of the loop over repositoriesSlice and the tag of lines 935-943
TagRepository ==
    /\ pc = "tag_repo"
    /\ UNCHANGED <<cfg, call, signal, buildLocals>>
    /\ IF idx > Len(repositoriesSlice) THEN Success /\ UNCHANGED <<idx, tidx, log, inflight>>
       ELSE IF idx > 1
       THEN Run(TagCmd(sourceContainerPath, targetContainerPath, TRUE), Goto("tag_version_login"))
       ELSE pc' = "tag_tags" /\ tidx' = 1 /\ UNCHANGED <<idx, log, inflight, exit>>

\* line 945
TagVersionLogin ==
    /\ pc = "tag_version_login"
    /\ UNCHANGED <<cfg, call, signal, buildLocals>>
    /\ LoginIfRequired(TRUE, targetContainerPath, Goto("tag_version_push"))

\* lines 948-953
TagVersionPush ==
    /\ pc = "tag_version_push"
    /\ UNCHANGED <<cfg, call, signal, buildLocals>>
    /\ Run(PushCmd(targetContainerPath),
           pc' = "tag_tags" /\ tidx' = 1 /\ UNCHANGED idx)

\* the head of the loop over tagsSlice and the tag of lines 959-968
TagAdditionalTag ==
    /\ pc = "tag_tags"
    /\ UNCHANGED <<cfg, call, signal, buildLocals>>
    /\ IF tidx > Len(tagsSlice)
       THEN pc' = "tag_repo" /\ idx' = idx + 1 /\ UNCHANGED <<tidx, log, inflight, exit>>
       ELSE Run(TagCmd(sourceContainerPath, targetTagPath, TRUE), Goto("tag_tag_login"))

\* line 970
TagTagLogin ==
    /\ pc = "tag_tag_login"
    /\ UNCHANGED <<cfg, call, signal, buildLocals>>
    /\ LoginIfRequired(TRUE, targetTagPath, Goto("tag_tag_push"))

\* lines 972-977
TagTagPush ==
    /\ pc = "tag_tag_push"
    /\ UNCHANGED <<cfg, call, signal, buildLocals>>
    /\ Run(PushCmd(targetTagPath),
           pc' = "tag_tags" /\ tidx' = tidx + 1 /\ UNCHANGED idx)

---------------------------------------------------------------------------
\* case "history", lines 998-1031

\* lines 998-1005
historyContainerPath ==
    (IF Len(repositoriesSlice) > 0 THEN repositoriesSlice[1] \o <<"/">> ELSE <<>>)
    \o container
    \o (IF cfg.tag # <<>> THEN <<":">> \o cfg.tag ELSE <<>>)

\* lines 1010-1016
HistoryCmd(image) ==
    Cmd("docker", "history",
        <<Arg("", <<"i", "m", "a", "g", "e">>), Arg("", <<"h", "i", "s", "t", "o", "r", "y">>),
          Arg("--human", <<>>), Arg("--no-trunc", <<>>), Arg("", image)>>, TRUE)

\* line 1007
HistoryLogin ==
    /\ pc = "history"
    /\ UNCHANGED <<cfg, call, signal, buildLocals>>
    /\ LoginIfRequired(FALSE, historyContainerPath, Goto("history_read"))

\* lines 1018-1019 and 1029-1031: foundation.GetCommandWithArgsOutput returns the error
HistoryRead ==
    /\ pc = "history_read"
    /\ UNCHANGED <<cfg, call, signal, idx, tidx, buildLocals>>
    /\ Exec(HistoryCmd(historyContainerPath), {0, 1},
            LAMBDA code : IF code = 0 THEN Success ELSE pc' = "history_pull" /\ UNCHANGED exit)

\* lines 1021-1026
HistoryPull ==
    /\ pc = "history_pull"
    /\ UNCHANGED <<cfg, call, signal, buildLocals>>
    /\ Run(PullCmd(historyContainerPath), Goto("history_retry"))

HistoryRetry_Again ==
    /\ pc = "history_retry"
    /\ UNCHANGED <<cfg, call, signal, idx, tidx, buildLocals>>
    /\ Exec(HistoryCmd(historyContainerPath), {0, 1},
            LAMBDA code : IF code = 0 THEN Success ELSE pc' = "history_pull" /\ UNCHANGED exit)

\* line 1028, after which main returns
HistoryRetry ==
    /\ pc = "history_retry"
    /\ UNCHANGED <<cfg, call, signal, idx, tidx, buildLocals>>
    /\ Exec(HistoryCmd(historyContainerPath), {0, 1},
            LAMBDA code : IF code = 0 THEN Success ELSE Fatal("command"))

(***************************************************************************)
(* getFromImagePathsFromDockerfile: the matches of                         *)
(*   (?mi)^\s*FROM\s+([^\s]+)(\s+AS\s+([^\s]+))?\s*$                       *)
(* in the text, leftmost first and not overlapping, as FindAllStringSubmatch *)
(* returns them.  \s is [\t\n\f\r ] and also matches line breaks; with the *)
(* flag m, ^ holds after a line break and $ before one.                    *)
(***************************************************************************)
RegexSpace == {" ", "\t", "\n", "\r", "\f"}

LowerSeq == <<"a", "b", "c", "d", "e", "f", "g", "h", "i", "j", "k", "l", "m",
              "n", "o", "p", "q", "r", "s", "t", "u", "v", "w", "x", "y", "z">>
UpperSeq == <<"A", "B", "C", "D", "E", "F", "G", "H", "I", "J", "K", "L", "M",
              "N", "O", "P", "Q", "R", "S", "T", "U", "V", "W", "X", "Y", "Z">>

ToUpperChar(c) ==
    IF \E k \in 1..Len(LowerSeq) : LowerSeq[k] = c
    THEN UpperSeq[CHOOSE k \in 1..Len(LowerSeq) : LowerSeq[k] = c]
    ELSE c

\* strings.ToUpper
ToUpper(str) == [k \in 1..Len(str) |-> ToUpperChar(str[k])]

\* strings.EqualFold and the flag i of the expression
EqualFold(a, b) == ToUpper(a) = ToUpper(b)

Least(S) == CHOOSE x \in S : \A y \in S : x <= y
Greatest(S) == CHOOSE x \in S : \A y \in S : x >= y

\* the first position from p on that holds no white space (Len + 1 at the end)
skipSpace(t, p) ==
    LET S == {q \in p..Len(t) : t[q] \notin RegexSpace}
    IN  IF S = {} THEN Len(t) + 1 ELSE Least(S)

\* the first position from p on that holds white space (Len + 1 at the end)
tokenEnd(t, p) ==
    LET S == {q \in p..Len(t) : t[q] \in RegexSpace}
    IN  IF S = {} THEN Len(t) + 1 ELSE Least(S)

\* the literal w (FROM, AS) stands at position p, in any case
wordAt(t, p, w) ==
    /\ p + Len(w) - 1 <= Len(t)
    /\ EqualFold(SubSeq(t, p, p + Len(w) - 1), w)

beginOfLine(t, p) == p = 1 \/ t[p - 1] = "\n"
endOfLine(t, p) == p = Len(t) + 1 \/ t[p] = "\n"

\* `\s*$` from position e: the greedy \s* gives back white space until $ holds;
\* the position where the match ends, 0 when there is none
lineTail(t, e) ==
    LET S == {q \in e..skipSpace(t, e) : endOfLine(t, q)}
    IN  IF S = {} THEN 0 ELSE Greatest(S)

NoMatch == [ok |-> FALSE, image |-> <<>>, stageName |-> <<>>, end |-> 0]

\* the match of the expression that starts at position p, if there is one
fromMatchAt(t, p) ==
    LET q  == skipSpace(t, p)                \* ^\s*
        r  == skipSpace(t, q + 4)            \* FROM\s+
        e1 == tokenEnd(t, r)                 \* ([^\s]+)
        a1 == skipSpace(t, e1)               \* (\s+
        a2 == skipSpace(t, a1 + 2)           \*  AS\s+
        e3 == tokenEnd(t, a2)                \*  ([^\s]+))?
        withAs == /\ a1 > e1
                  /\ wordAt(t, a1, <<"A", "S">>)
                  /\ a2 > a1 + 2
                  /\ e3 > a2
                  /\ lineTail(t, e3) # 0
    IN  IF ~(beginOfLine(t, p) /\ wordAt(t, q, <<"F", "R", "O", "M">>) /\ r > q + 4 /\ e1 > r)
        THEN NoMatch
        ELSE IF withAs
        THEN [ok |-> TRUE, image |-> SubSeq(t, r, e1 - 1),
              stageName |-> SubSeq(t, a2, e3 - 1), end |-> lineTail(t, e3)]
        ELSE IF lineTail(t, e1) # 0
        THEN [ok |-> TRUE, image |-> SubSeq(t, r, e1 - 1),
              stageName |-> <<>>, end |-> lineTail(t, e1)]
        ELSE NoMatch

isOfficialDockerHubImage_WithoutSlash(image) == Count(image, "/") = 0

\* line 1127
isOfficialDockerHubImage(image) == Count(image, "/") = 0 \/ Contains(image, "$")

\* FindAllStringSubmatch from position s on, each match made a fromImage
RECURSIVE fromImagesFrom(_, _)
fromImagesFrom(t, s) ==
    LET S == {p \in s..(Len(t) + 1) : fromMatchAt(t, p).ok}
    IN  IF S = {} THEN <<>>
        ELSE LET m == fromMatchAt(t, Least(S))
             IN  <<[imagePath |-> m.image,
                    stageName |-> m.stageName,
                    isOfficialDockerHubImage |-> isOfficialDockerHubImage(m.image)]>>
                 \o fromImagesFrom(t, m.end)

getFromImagePathsFromDockerfile(dockerfileContent) == fromImagesFrom(dockerfileContent, 1)

(***************************************************************************)
(* expandEnvironmentVariablesIfSet: os.Expand with the mapping of lines    *)
(* 1219-1234.  The environment is cfg.env, a function from names to values;*)
(* a name outside its domain is unset.                                     *)
(***************************************************************************)
Getenv(name) == IF name \in DOMAIN cfg.env THEN cfg.env[name] ELSE <<>>

\* os.isShellSpecialVar
isShellSpecialVar(c) == c \in ({"*", "#", "$", "@", "!", "?", "-"} \cup Digits)

\* os.isAlphaNum
isAlphaNum(c) == c \in ({"_"} \cup Digits \cup LowerCase \cup UpperCase)

\* os.getShellName: the name that follows a "$" and the number of characters it takes
getShellName(str) ==
    IF str[1] = "{"
    THEN IF Len(str) > 2 /\ isShellSpecialVar(str[2]) /\ str[3] = "}"
         THEN [name |-> <<str[2]>>, w |-> 3]
         ELSE LET S == {k \in 2..Len(str) : str[k] = "}"}
              IN  IF S = {} THEN [name |-> <<>>, w |-> 1]
                  ELSE IF Least(S) = 2 THEN [name |-> <<>>, w |-> 2]
                  ELSE [name |-> SubSeq(str, 2, Least(S) - 1), w |-> Least(S)]
    ELSE IF isShellSpecialVar(str[1]) THEN [name |-> <<str[1]>>, w |-> 1]
    ELSE LET S == {k \in 1..Len(str) : ~isAlphaNum(str[k])}
             n == IF S = {} THEN Len(str) ELSE Least(S) - 1
         IN  [name |-> SubSeq(str, 1, n), w |-> n]

\* contains(values, value)
contains(values, value) == \E k \in 1..Len(values) : values[k] = value

expandMapping_Getenv(envar) ==
    IF ~contains(Split(cfg.dontExpand, ","), envar) THEN Getenv(envar)
    ELSE <<"$", "{">> \o envar \o <<"}">>

\* the mapping handed to os.Expand, lines 1219-1234
expandMapping(envar) ==
    LET envarsToSkipForExpansion == Split(cfg.dontExpand, ",")
    IN  IF ~contains(envarsToSkipForExpansion, envar) /\ Getenv(envar) # <<>>
        THEN Getenv(envar)
        ELSE <<"$", "{">> \o envar \o <<"}">>

\* os.Expand from position j on
RECURSIVE expandFrom(_, _)
expandFrom(str, j) ==
    IF j > Len(str) THEN <<>>
    ELSE IF str[j] = "$" /\ j + 1 <= Len(str)
    THEN LET g == getShellName(SubSeq(str, j + 1, Len(str)))
             piece == IF g.name = <<>> /\ g.w > 0 THEN <<>>
                      ELSE IF g.name = <<>> THEN <<"$">>
                      ELSE expandMapping(g.name)
         IN  piece \o expandFrom(str, j + g.w + 1)
    ELSE <<str[j]>> \o expandFrom(str, j + 1)

expandEnvironmentVariablesIfSet(dockerfile) == expandFrom(dockerfile, 1)

(***************************************************************************)
(* case "build", lines 589-829                                             *)
(***************************************************************************)

\* the byte order mark U+FEFF, one character of the text
BOM == "\\uFEFF"

\* strings.TrimPrefix(sourceDockerfile, "\\uFEFF"), line 638
trimBOM(text) == IF Len(text) > 0 /\ text[1] = BOM THEN Tail(text) ELSE text

\* lines 617-630: which Dockerfile is taken: "inline", "dockerfile", "template" or "none"
dockerfileSource ==
    IF cfg.inlineDockerfile # <<>> THEN "inline"
    ELSE IF cfg.dockerfileOnDisk.exists THEN "dockerfile"
    ELSE IF cfg.templateOnDisk.exists THEN "template"
    ELSE "none"

\* lines 622-639
sourceDockerfile ==
    CASE dockerfileSource = "inline" -> cfg.inlineDockerfile
      [] dockerfileSource = "dockerfile" -> trimBOM(cfg.dockerfileOnDisk.content)
      [] dockerfileSource = "template" -> trimBOM(cfg.templateOnDisk.content)
      [] OTHER -> <<>>

\* lines 641-645
targetDockerfile ==
    IF cfg.expandEnvironmentVariables
    THEN expandEnvironmentVariablesIfSet(sourceDockerfile)
    ELSE sourceDockerfile

\* the build goes on with whatever stages were found, also with none
BuildDockerfile_WithoutStagesCheck ==
    /\ pc = "build"
    /\ UNCHANGED <<cfg, call, signal, log, inflight, idx, tidx, dockerLayerCachingPaths, bucketName>>
    /\ IF dockerfileSource = "none"
       THEN Fatal("configuration") /\ UNCHANGED fromImagePaths
       ELSE /\ fromImagePaths' = getFromImagePathsFromDockerfile(targetDockerfile)
            /\ pc' = "build_pull" /\ UNCHANGED exit

\* lines 589-678: the build directory, the copies and the written Dockerfile are
\* files of the build context and not part of the state; the Dockerfile is
\* taken, expanded and its FROM statements are extracted
BuildDockerfile ==
    /\ pc = "build"
    /\ UNCHANGED <<cfg, call, signal, log, inflight, idx, tidx, dockerLayerCachingPaths, bucketName>>
    /\ IF dockerfileSource = "none"
       THEN Fatal("configuration") /\ UNCHANGED fromImagePaths
       ELSE LET found == getFromImagePathsFromDockerfile(targetDockerfile)
            IN  /\ fromImagePaths' = found
                /\ IF Len(found) = 0 THEN Fatal("configuration")
                   ELSE pc' = "build_pull" /\ UNCHANGED exit

\* lines 681-685: the head of the loop that pulls the FROM images
BuildNextFromImage ==
    /\ pc = "build_pull"
    /\ UNCHANGED <<cfg, call, signal, log, inflight, exit, tidx, buildLocals>>
    /\ IF idx > Len(fromImagePaths) THEN pc' = "build_login" /\ UNCHANGED idx
       ELSE IF fromImagePaths[idx].isOfficialDockerHubImage
       THEN pc' = "build_pull" /\ idx' = idx + 1
       ELSE pc' = "build_pull_login" /\ UNCHANGED idx

\* line 685
BuildPullLogin ==
    /\ pc = "build_pull_login"
    /\ UNCHANGED <<cfg, call, signal, buildLocals>>
    /\ LoginIfRequired(FALSE, fromImagePaths[idx].imagePath, Goto("build_pull_image"))

\* lines 686-691
BuildPullImage ==
    /\ pc = "build_pull_image"
    /\ UNCHANGED <<cfg, call, signal, buildLocals>>
    /\ Run(PullCmd(fromImagePaths[idx].imagePath),
           pc' = "build_pull" /\ idx' = idx + 1 /\ UNCHANGED tidx)

\* line 695
containerPath == ImagePath(repositoriesSlice[1], container, estafetteBuildVersionAsTag)

\* lines 695-696
BuildLogin ==
    /\ pc = "build_login"
    /\ UNCHANGED <<cfg, call, signal, buildLocals>>
    /\ LoginIfRequired(~cfg.noCachePush, containerPath,
                       pc' = "build_layer" /\ idx' = 1 /\ UNCHANGED tidx)

\* line 709
isCacheable_IgnoringNoCache == cfg.goos # "windows"

\* line 709
isCacheable == ~cfg.noCache /\ cfg.goos # "windows"

isFinalLayer(index) == index = Len(fromImagePaths)

Dlc == <<"d", "l", "c">>

\* lines 710-719
dockerLayerCachingTag(index) ==
    IF isFinalLayer(index) THEN Dlc
    ELSE tidyTag(Dlc \o <<"-">> \o fromImagePaths[index].stageName)

\* line 721
dockerLayerCachingPath(index) ==
    ImagePath(repositoriesSlice[1], container, dockerLayerCachingTag(index))

\* an intermediate stage is skipped only when nothing is cached
skipsLayer_OnlyWithoutCache(index) == ~isFinalLayer(index) /\ ~isCacheable

\* lines 712-716: an intermediate stage that is not built on its own
skipsLayer(index) ==
    ~isFinalLayer(index) /\ (fromImagePaths[index].stageName = <<>> \/ ~isCacheable)

\* lines 743-748: the --tag arguments of repository r for the additional tags from k on
RECURSIVE additionalTagArgs(_, _, _)
additionalTagArgs(r, k, cachingTag) ==
    IF k > Len(tagsSlice) THEN <<>>
    ELSE (IF r = repositoriesSlice[1]
             /\ (tagsSlice[k] = estafetteBuildVersionAsTag \/ tagsSlice[k] = cachingTag)
          THEN <<>>
          ELSE <<Arg("--tag", ImagePath(r, container, tagsSlice[k]))>>)
         \o additionalTagArgs(r, k + 1, cachingTag)

\* lines 741-749: the --tag arguments of the repositories from k on
RECURSIVE finalTagArgs(_, _)
finalTagArgs(k, cachingTag) ==
    IF k > Len(repositoriesSlice) THEN <<>>
    ELSE <<Arg("--tag", ImagePath(repositoriesSlice[k], container, estafetteBuildVersionAsTag))>>
         \o additionalTagArgs(repositoriesSlice[k], 1, cachingTag)
         \o finalTagArgs(k + 1, cachingTag)

\* lines 755-758
buildArgArgs ==
    [k \in 1..Len(argsSlice) |->
        Arg("--build-arg", argsSlice[k] \o <<"=">> \o Getenv(argsSlice[k]))]

InlineCacheArg == <<"B", "U", "I", "L", "D", "K", "I", "T", "_", "I", "N", "L", "I", "N", "E", "_",
                    "C", "A", "C", "H", "E", "=", "1">>

\* the cache of the stage that is built, and of no stage before it
cacheFromArgs_OfTheStageAlone(cachingPaths) ==
    <<Arg("--cache-from", cachingPaths[Len(cachingPaths)])>>

\* lines 731-733: a --cache-from for every element of dockerLayerCachingPaths
cacheFromArgs(cachingPaths) ==
    [k \in 1..Len(cachingPaths) |-> Arg("--cache-from", cachingPaths[k])]

\* lines 724-761: the arguments of the build of stage index, cachingPaths being
\* dockerLayerCachingPaths after line 722
buildCmdArgs(index, cachingPaths) ==
    (IF isCacheable
     THEN <<Arg("--build-arg", InlineCacheArg)>>
          \o cacheFromArgs(cachingPaths)
          \o <<Arg("--tag", dockerLayerCachingPath(index))>>
     ELSE <<Arg("--no-cache", <<>>)>>)
    \o (IF isFinalLayer(index)
        THEN finalTagArgs(1, dockerLayerCachingTag(index))
        ELSE <<Arg("--target", fromImagePaths[index].stageName)>>)
    \o buildArgArgs
    \o <<Arg("--file", <<"D", "o", "c", "k", "e", "r", "f", "i", "l", "e">>), Arg("", <<".">>)>>

\* lines 707-762: the head of the loop over the stages and the build of one stage
BuildLayer ==
    /\ pc = "build_layer"
    /\ UNCHANGED <<cfg, call, signal, fromImagePaths, bucketName>>
    /\ IF idx > Len(fromImagePaths)
       THEN pc' = "build_done" /\ UNCHANGED <<idx, tidx, log, inflight, exit, dockerLayerCachingPaths>>
       ELSE IF skipsLayer(idx)
       THEN pc' = "build_layer" /\ idx' = idx + 1
            /\ UNCHANGED <<tidx, log, inflight, exit, dockerLayerCachingPaths>>
       ELSE LET cachingPaths == Append(dockerLayerCachingPaths, dockerLayerCachingPath(idx))
            IN  /\ dockerLayerCachingPaths' =
                       IF inflight = {} THEN cachingPaths ELSE dockerLayerCachingPaths
                /\ Run(Cmd("docker", "build", buildCmdArgs(idx, cachingPaths), TRUE),
                       Goto("build_cache_push"))

\* the image with the version tag is pushed in place of the cache image
BuildCachePush_VersionTag ==
    /\ pc = "build_cache_push"
    /\ UNCHANGED <<cfg, call, signal, buildLocals>>
    /\ IF isCacheable /\ ~cfg.noCachePush
       THEN Run(PushCmd(containerPath),
                pc' = "build_layer" /\ idx' = idx + 1 /\ UNCHANGED tidx)
       ELSE pc' = "build_layer" /\ idx' = idx + 1 /\ UNCHANGED <<tidx, log, inflight, exit>>

\* lines 764-771
BuildCachePush ==
    /\ pc = "build_cache_push"
    /\ UNCHANGED <<cfg, call, signal, buildLocals>>
    /\ IF isCacheable /\ ~cfg.noCachePush
       THEN Run(PushCmd(dockerLayerCachingPath(idx)),
                pc' = "build_layer" /\ idx' = idx + 1 /\ UNCHANGED tidx)
       ELSE pc' = "build_layer" /\ idx' = idx + 1 /\ UNCHANGED <<tidx, log, inflight, exit>>

SevUnknown == <<"U", "N", "K", "N", "O", "W", "N">>
SevLow == <<"L", "O", "W">>
SevMedium == <<"M", "E", "D", "I", "U", "M">>
SevHigh == <<"H", "I", "G", "H">>
SevCritical == <<"C", "R", "I", "T", "I", "C", "A", "L">>

severityArgument_AllLevels ==
    Join(<<SevUnknown, SevLow, SevMedium, SevHigh, SevCritical>>, ",")

\* lines 779-791
severityArgument ==
    LET upper == ToUpper(cfg.minimumSeverityToFail)
    IN  CASE upper = SevUnknown -> Join(<<SevUnknown, SevLow, SevMedium, SevHigh, SevCritical>>, ",")
          [] upper = SevLow -> Join(<<SevLow, SevMedium, SevHigh, SevCritical>>, ",")
          [] upper = SevMedium -> Join(<<SevMedium, SevHigh, SevCritical>>, ",")
          [] upper = SevHigh -> Join(<<SevHigh, SevCritical>>, ",")
          [] upper = SevCritical -> SevCritical
          [] OTHER -> Join(<<SevUnknown, SevLow, SevMedium, SevHigh, SevCritical>>, ",")

returnsBeforeScan_Always == TRUE

\* line 774
returnsBeforeScan == cfg.goos = "windows"

\* lines 774-797: on windows main returns here; otherwise the temporary file
\* for the image is created
BuildDone ==
    /\ pc = "build_done"
    /\ UNCHANGED <<cfg, call, signal, log, inflight, tidx, fromImagePaths, dockerLayerCachingPaths>>
    /\ IF returnsBeforeScan THEN Success /\ UNCHANGED <<idx, bucketName>>
       ELSE \E created \in BOOLEAN :
               IF created
               THEN pc' = "build_db" /\ idx' = 1 /\ bucketName' = <<>> /\ UNCHANGED exit
               ELSE Fatal("tempfile") /\ UNCHANGED <<idx, bucketName>>

TmpFile == <<"t", "m", "p", ".", "t", "a", "r">>
TrivyCache == <<"/", "t", "r", "i", "v", "y", "-", "c", "a", "c", "h", "e">>

\* line 804
GsutilCmd(bucket) ==
    Cmd("gsutil", "cp",
        <<Arg("-m", <<>>), Arg("", <<"c", "p">>), Arg("-r", <<>>),
          Arg("", <<"g", "s", ":", "/", "/">> \o bucket \o TrivyCache \o <<"/", "*">>),
          Arg("", TrivyCache)>>, TRUE)

\* lines 800-806: credentials[i] for every index i of repositoriesSlice; an index
\* beyond the credentials is a run-time panic (index out of range)
BuildTrivyDb ==
    /\ pc = "build_db"
    /\ UNCHANGED <<cfg, call, signal, fromImagePaths, dockerLayerCachingPaths>>
    /\ IF idx > Len(repositoriesSlice)
       THEN pc' = "build_save" /\ UNCHANGED <<idx, tidx, log, inflight, exit, bucketName>>
       ELSE IF idx > Len(cfg.credentials)
       THEN /\ exit' = [status |-> "panic", kind |-> "index out of range"]
            /\ pc' = "exit"
            /\ UNCHANGED <<idx, tidx, log, inflight, bucketName>>
       ELSE IF inflight # {} \/ bucketName # cfg.credentials[idx].trivyVulnerabilityDBGCSBucket
       THEN /\ bucketName' = cfg.credentials[idx].trivyVulnerabilityDBGCSBucket
            /\ Run(GsutilCmd(cfg.credentials[idx].trivyVulnerabilityDBGCSBucket),
                   pc' = "build_db" /\ idx' = idx + 1 /\ UNCHANGED tidx)
       ELSE pc' = "build_db" /\ idx' = idx + 1 /\ UNCHANGED <<tidx, log, inflight, exit, bucketName>>

\* line 808
BuildSave ==
    /\ pc = "build_save"
    /\ UNCHANGED <<cfg, call, signal, buildLocals>>
    /\ Run(Cmd("docker", "save", <<Arg("", containerPath), Arg("-o", TmpFile)>>, TRUE),
           Goto("build_scan"))

\* --exit-code 15: the exit code of trivy when it finds vulnerabilities
VulnerabilityExitCode == 15

\* the exit of trivy: 0, 1 (the unknown OS error), the vulnerability exit code,
\* another exit code, or -1 when the program could not be run at all
ScanExits == {0, 1, VulnerabilityExitCode, 2, -1}

\* line 819
TrivyCmd ==
    Cmd("/trivy", "image",
        <<Arg("--cache-dir", TrivyCache), Arg("", <<"i", "m", "a", "g", "e">>),
          Arg("--severity", severityArgument), Arg("--light", <<>>),
          Arg("--skip-update", <<>>), Arg("--no-progress", <<>>),
          Arg("--exit-code", <<"1", "5">>), Arg("--ignore-unfixed", <<>>),
          Arg("--input", TmpFile)>>, TRUE)

scanErrorIsIgnored_Always(code) == TRUE

\* line 822: strings.EqualFold(err.Error(), "exit status 1")
scanErrorIsIgnored(code) == code = 1

\* lines 818-829, after which main returns
BuildScan ==
    /\ pc = "build_scan"
    /\ UNCHANGED <<cfg, call, signal, idx, tidx, buildLocals>>
    /\ Exec(TrivyCmd, ScanExits,
            LAMBDA code : IF code = 0 THEN Success
                          ELSE IF scanErrorIsIgnored(code) THEN Success
                          ELSE Fatal("vulnerability"))

(***************************************************************************)
(* The inputs: flags, environment, credentials and Dockerfiles of a run.   *)
(***************************************************************************)

\* the longest list of repositories and of additional tags
MaxRepositories == 2
MaxTags == 2

SeqsUpTo(S, n) == UNION {[1..k -> S] : k \in 0..n}

RepoGO == <<"g", "/", "o">>
RepoGP == <<"g", "/", "p">>
RepoE == <<"e">>
RepositoryNames == {RepoGO, RepoGP, RepoE}

\* ESTAFETTE_BUILD_VERSION and the tag tidyTag makes of it
BuildVersion == <<"1", "/", "2">>
VersionTag == <<"1", "-", "2">>
TagDev == <<"d">>
TagNames == {TagDev, VersionTag}

\* the lists of repositories: every list of up to two, and the longer lists
\* that name no repository twice
RepositoryLists ==
    {r \in SeqsUpTo(RepositoryNames, MaxRepositories) :
        Len(r) <= 2 \/ \A i, j \in DOMAIN r : r[i] = r[j] => i = j}
TagLists == SeqsUpTo(TagNames, MaxTags)

Credential(repository, username, password, allowed, bucket) ==
    [name |-> <<"c", "r", "-">> \o repository, repository |-> repository,
     username |-> username, password |-> password,
     allowedPipelinesToPush |-> allowed,
     trivyVulnerabilityDBGCSBucket |-> bucket]

\* the pipeline of the modelled runs is s/o/n
PatternThis == <<" ", "s", "/", "o", "/", "n", " ">>
PatternWildcard == <<"s", "/", "o", "/", ".", "*">>
PatternOther == <<"s", "/", "o", "/", "x">>

CredGO == Credential(RepoGO, <<"u", "1">>, <<"p", "1">>, <<>>, <<"b", "1">>)
CredGODenied == Credential(RepoGO, <<"u", "1">>, <<"p", "1">>, PatternOther, <<"b", "1">>)
CredGP == Credential(RepoGP, <<"u", "2">>, <<"p", "2">>, PatternWildcard, <<"b", "1">>)
CredGPDenied == Credential(RepoGP, <<"u", "2">>, <<"p", "2">>, PatternOther, <<"b", "1">>)
CredE == Credential(RepoE, <<"u", "3">>, <<"p", "3">>, PatternThis, <<"b", "2">>)
CredG == Credential(<<"g">>, <<"u", "4">>, <<"p", "4">>, <<>>, <<"b", "2">>)

CredentialLists ==
    { <<>>,
      <<CredGO, CredGP, CredE>>,
      <<CredGODenied, CredGP, CredE>>,
      <<CredG, CredGPDenied, CredGO>>,
      <<CredE>> }

DefaultCfg ==
    [action |-> "", repositories |-> <<>>, containerFlag |-> <<"c">>, appLabel |-> <<>>,
     tag |-> <<>>, tags |-> <<>>,
     inlineDockerfile |-> <<>>,
     dockerfileOnDisk |-> [exists |-> FALSE, content |-> <<>>],
     templateOnDisk |-> [exists |-> FALSE, content |-> <<>>],
     args |-> <<>>, pushVersionTag |-> TRUE,
     versionTagPrefix |-> <<>>, versionTagSuffix |-> <<>>,
     noCache |-> FALSE, noCachePush |-> FALSE,
     expandEnvironmentVariables |-> TRUE, dontExpand |-> <<"P", "A", "T", "H">>,
     gitSource |-> <<"s">>, gitOwner |-> <<"o">>, gitName |-> <<"n">>,
     minimumSeverityToFail |-> SevHigh,
     credentials |-> <<>>, env |-> (<<"X">> :> <<"g", "/", "p">>),
     estafetteBuildVersion |-> BuildVersion, goos |-> "linux"]

\* the credentials of a run in which every repository has one it may push with
OpenCredentials == <<CredGO, CredGP, CredE>>

\* pushes of every list of repositories and tags, and pushes with every list of
\* credentials
PushCfgs ==
    {[DefaultCfg EXCEPT !.action = "push", !.repositories = Join(r, ","), !.tags = Join(t, ","),
                        !.credentials = OpenCredentials, !.pushVersionTag = b] :
        r \in RepositoryLists, t \in TagLists, b \in BOOLEAN}
    \cup
    {[DefaultCfg EXCEPT !.action = "push", !.repositories = Join(r, ","), !.tags = t,
                        !.credentials = c, !.pushVersionTag = b] :
        r \in RepositoryLists, t \in {<<>>, TagDev}, c \in CredentialLists, b \in BOOLEAN}
    \cup
    {[DefaultCfg EXCEPT !.action = "push", !.repositories = RepoGO, !.tags = TagDev,
                        !.credentials = OpenCredentials,
                        !.noCache = nc, !.noCachePush = ncp] :
        nc \in BOOLEAN, ncp \in BOOLEAN}

TagCfgs ==
    {[DefaultCfg EXCEPT !.action = "tag", !.repositories = Join(r, ","), !.tags = Join(t, ","),
                        !.credentials = OpenCredentials] :
        r \in RepositoryLists, t \in TagLists}
    \cup
    {[DefaultCfg EXCEPT !.action = "tag", !.repositories = Join(r, ","), !.tags = TagDev,
                        !.credentials = c] :
        r \in RepositoryLists, c \in CredentialLists}

HistoryCfgs ==
    {[DefaultCfg EXCEPT !.action = "history", !.repositories = Join(r, ","), !.tag = t,
                        !.credentials = c, !.containerFlag = n] :
        r \in RepositoryLists, t \in {<<>>, TagDev}, c \in CredentialLists,
        n \in {<<>>, <<"c">>}}

OtherCfgs ==
    {[DefaultCfg EXCEPT !.action = a, !.repositories = Join(r, ",")] :
        a \in {"dive", "trivy", "", "scan"}, r \in {<<>>, <<RepoE>>}}

\* Dockerfiles
DockerfileOfficial == <<"F", "R", "O", "M", " ", "n", "\n", "R", "U", "N", " ", "x">>
DockerfileTwoStages == <<"F", "R", "O", "M", " ", "g", "/", "o", "/", "b", " ", "A", "S", " ", "s", "\n", "F", "R", "O", "M", " ", "e", "/", "a", ":", "1">>
DockerfileThreeStages == <<"f", "r", "o", "m", " ", "n", " ", "a", "s", " ", "s", "\n", "\n", "F", "R", "O", "M", " ", "g", "/", "p", "/", "b", "\n", " ", "F", "R", "O", "M", " ", "$", "{", "X", "}", "/", "i", ":", "$", "{", "Y", "}">>
\* FROM n AS s / FROM n / FROM s AS t / FROM t AS u
DockerfileFourStages == <<"F", "R", "O", "M", " ", "n", " ", "A", "S", " ", "s", "\n", "F", "R", "O", "M", " ", "n", "\n", "F", "R", "O", "M", " ", "s", " ", "A", "S", " ", "t", "\n", "F", "R", "O", "M", " ", "t", " ", "A", "S", " ", "u">>
\* FROM g/o/b AS s / FROM g/o/b
DockerfileSameImage == <<"F", "R", "O", "M", " ", "g", "/", "o", "/", "b", " ", "A", "S", " ", "s", "\n", "F", "R", "O", "M", " ", "g", "/", "o", "/", "b">>
DockerfileNoFrom == <<"R", "U", "N", " ", "x">>
DockerfileBOM == <<BOM, "F", "R", "O", "M", " ", "g", "/", "o", "/", "b">>
Dockerfiles == {DockerfileOfficial, DockerfileTwoStages, DockerfileThreeStages,
                DockerfileNoFrom, DockerfileBOM}

OnDisk(text) == [exists |-> TRUE, content |-> text]

\* where the Dockerfile of a build comes from
DockerfileCfgs ==
    {[DefaultCfg EXCEPT !.inlineDockerfile = d] : d \in Dockerfiles}
    \cup {[DefaultCfg EXCEPT !.dockerfileOnDisk = OnDisk(d)] : d \in {DockerfileBOM, DockerfileTwoStages}}
    \cup {[DefaultCfg EXCEPT !.templateOnDisk = OnDisk(DockerfileOfficial)], DefaultCfg}

\* the additional tags of a build: those of a push, and lists with the cache tag
BuildTagLists == TagLists \cup {<<Dlc>>, <<Dlc, TagDev>>}

\* builds of every Dockerfile under every combination of the flags, and builds
\* of the two-stage Dockerfile for every list of repositories and tags
BuildCfgs ==
    {[d EXCEPT !.action = "build", !.repositories = RepoGO,
               !.credentials = OpenCredentials,
               !.noCache = nc, !.noCachePush = ncp, !.goos = os,
               !.expandEnvironmentVariables = x] :
        d \in DockerfileCfgs, nc \in BOOLEAN, ncp \in BOOLEAN,
        os \in {"linux", "windows"}, x \in BOOLEAN}
    \cup
    {[DefaultCfg EXCEPT !.action = "build", !.inlineDockerfile = DockerfileTwoStages,
                        !.repositories = Join(r, ","), !.tags = Join(t, ","),
                        !.credentials = OpenCredentials,
                        !.noCache = nc] :
        r \in RepositoryLists, t \in BuildTagLists, nc \in BOOLEAN}
    \cup
    {[DefaultCfg EXCEPT !.action = "build", !.inlineDockerfile = DockerfileTwoStages,
                        !.repositories = Join(r, ","), !.credentials = c,
                        !.noCache = nc, !.goos = os] :
        r \in RepositoryLists, c \in {<<CredGODenied>>, <<>>},
        nc \in BOOLEAN, os \in {"linux", "windows"}}
    \cup
    {[DefaultCfg EXCEPT !.action = "build", !.inlineDockerfile = DockerfileTwoStages,
                        !.repositories = RepoGO, !.credentials = OpenCredentials,
                        !.args = <<"X", ",", "Y">>,
                        !.noCache = nc, !.noCachePush = ncp] :
        nc \in BOOLEAN, ncp \in BOOLEAN}
    \cup
    {[DefaultCfg EXCEPT !.action = "build", !.inlineDockerfile = DockerfileFourStages,
                        !.repositories = RepoGO, !.credentials = OpenCredentials,
                        !.noCache = nc, !.noCachePush = ncp] :
        nc \in BOOLEAN, ncp \in BOOLEAN}
    \cup
    {[DefaultCfg EXCEPT !.action = "build", !.inlineDockerfile = DockerfileTwoStages,
                        !.repositories = RepoGO, !.credentials = <<CredGODenied>>,
                        !.noCache = nc, !.noCachePush = TRUE] :
        nc \in BOOLEAN}
    \cup
    {[DefaultCfg EXCEPT !.action = "build", !.inlineDockerfile = DockerfileSameImage,
                        !.repositories = RepoGO, !.credentials = c, !.noCache = TRUE] :
        c \in {OpenCredentials, <<>>}}

\* prefixes, build versions and suffixes of the version tag: absent, plain, with
\* characters that no tag may hold, and long enough to pass the maximum length
VersionPrefixes ==
    {<<>>, <<"p">>, <<"p", "+", "/">>, [i \in 1..(MaxTagLength - 1) |-> "x"]}
BuildVersions ==
    {BuildVersion, <<>>,
     [i \in 1..(MaxTagLength + 1) |-> IF i \in {MaxTagLength - 2, MaxTagLength - 1} THEN "+" ELSE "a"]}
VersionSuffixes == {<<>>, <<"s">>, <<"+">>}

\* push, tag and build of one repository for every such version tag
VersionCfgs ==
    {[DefaultCfg EXCEPT !.action = a, !.repositories = RepoGO,
                        !.inlineDockerfile = DockerfileOfficial, !.noCache = TRUE,
                        !.versionTagPrefix = p, !.estafetteBuildVersion = v,
                        !.versionTagSuffix = x] :
        a \in {"push", "tag", "build"},
        p \in VersionPrefixes, v \in BuildVersions, x \in VersionSuffixes}

NoCall == [fn |-> "", args |-> <<>>, done |-> FALSE, result |-> <<>>]

\* the state of main() when it starts with the flags and environment cfg
Started ==
    /\ pc = "start"
    /\ idx = 1
    /\ tidx = 1
    /\ log = <<>>
    /\ exit = [status |-> "running", kind |-> ""]
    /\ fromImagePaths = <<>>
    /\ dockerLayerCachingPaths = <<>>
    /\ bucketName = <<>>
    /\ inflight = {}
    /\ signal = FALSE

Init ==
    /\ cfg \in PushCfgs \cup TagCfgs \cup HistoryCfgs \cup BuildCfgs \cup OtherCfgs \cup VersionCfgs
    /\ Started
    /\ call = NoCall

Next ==
    \/ Begin
    \/ PushRepository \/ PushLogin \/ PushVersionTag \/ PushCheckTags
    \/ PushAdditionalTag \/ PushTagLogin \/ PushTagPush
    \/ TagLoginSource \/ TagPullSource \/ TagRepository \/ TagVersionLogin
    \/ TagVersionPush \/ TagAdditionalTag \/ TagTagLogin \/ TagTagPush
    \/ HistoryLogin \/ HistoryRead \/ HistoryPull \/ HistoryRetry
    \/ BuildDockerfile \/ BuildNextFromImage \/ BuildPullLogin \/ BuildPullImage
    \/ BuildLogin \/ BuildLayer \/ BuildCachePush
    \/ BuildDone \/ BuildTrivyDb \/ BuildSave \/ BuildScan

Spec == Init /\ [][Next]_vars

\* main, lines 467-468: a termination signal arrives and the goroutine of
\* foundation.InitCancellationContext cancels the context
Signal ==
    /\ Running
    /\ pc # "call"
    /\ ~signal
    /\ signal' = TRUE
    /\ inflight' = {[c EXCEPT !.signalled = "inflight"] : c \in inflight}
    /\ UNCHANGED <<cfg, pc, idx, tidx, log, exit, buildLocals, call>>

\* the runs in which a signal may arrive: one or two of every action
SignalCfgs ==
    {[DefaultCfg EXCEPT !.action = a, !.repositories = Join(<<RepoGO, RepoE>>, ","),
                        !.tags = TagDev, !.credentials = OpenCredentials,
                        !.pushVersionTag = b] :
        a \in {"push", "tag"}, b \in BOOLEAN}
    \cup
    {[DefaultCfg EXCEPT !.action = "history", !.repositories = r,
                        !.credentials = OpenCredentials] : r \in {RepoE, <<>>}}
    \cup
    {[DefaultCfg EXCEPT !.action = "build", !.inlineDockerfile = DockerfileTwoStages,
                        !.repositories = RepoGO, !.credentials = OpenCredentials]}

InitSignal ==
    /\ cfg \in SignalCfgs
    /\ Started
    /\ call = NoCall

SpecSignal == InitSignal /\ [][Next \/ Signal]_vars

(***************************************************************************)
(* The push action of the earlier revision of the program, src/main.go.    *)
(* It has no allow-list, no cancellation context and no noCachePush flag,  *)
(* its cache image carries the tag of the git branch, and it pushes that   *)
(* cache image inside the loop over the repositories.  tidyTag,            *)
(* getCredentialsForContainers, the defaults of *container and the login   *)
(* arguments are the same text in both revisions; the version tag of       *)
(* src/main.go:106-109 is estafetteBuildVersionAsTag without a prefix.     *)
(***************************************************************************)

\* src/main.go, line 110: tidyTag(fmt.Sprintf("cache-%v", *gitBranch))
gitBranchAsTag == tidyTag(<<"c", "a", "c", "h", "e", "-">> \o cfg.gitBranch)

\* src/main.go, line 299
cacheContainerPath == ImagePath(repositoriesSlice[1], container, gitBranchAsTag)

\* src/main.go, lines 513-546: loginIfRequired(credentials, image) logs in with
\* the credential of the image, whatever the pipeline is; a failed login is fatal
mainGoLoginIfRequired(image, Cont) ==
    LET cs == Range(getCredentialsForContainers(cfg.credentials, <<image>>))
    IN  IF cs = {} THEN Cont /\ UNCHANGED <<log, inflight, exit>>
        ELSE LET c == CHOOSE c \in cs : TRUE
                 cmd == [Cmd("docker", "login", loginArgs(c), FALSE)
                             EXCEPT !.images = <<image>>]
             IN  Run(cmd, Cont)

\* src/main.go, lines 58-112 and 447-453: validateRepositories is fatal for an
\* empty list of repositories, whatever the action is, and an action that is
\* none of build, push and tag is fatal (the build and tag cases of this
\* revision are not part of this specification)
MainGoBegin ==
    /\ pc = "start"
    /\ cfg.action \notin {"build", "tag"}
    /\ UNCHANGED <<cfg, call, signal, log, inflight, buildLocals>>
    /\ IF cfg.repositories = <<>> THEN Fatal("configuration") /\ UNCHANGED <<idx, tidx>>
       ELSE IF cfg.action = "push"
       THEN pc' = "push" /\ idx' = 1 /\ tidx' = 1 /\ UNCHANGED exit
       ELSE Fatal("configuration") /\ UNCHANGED <<idx, tidx>>

\* src/main.go, lines 302-316: the head of the loop over repositoriesSlice and
\* the tag of the repositories after the first
MainGoPushRepository ==
    /\ pc = "push"
    /\ UNCHANGED <<cfg, call, signal, buildLocals>>
    /\ IF idx > Len(repositoriesSlice) THEN Success /\ UNCHANGED <<idx, tidx, log, inflight>>
       ELSE IF idx > 1
       THEN Run(TagCmd(sourceContainerPath, targetContainerPath, FALSE), Goto("push_login"))
       ELSE Goto("push_login") /\ UNCHANGED <<log, inflight, exit>>

\* src/main.go, line 318
MainGoPushLogin ==
    /\ pc = "push_login"
    /\ UNCHANGED <<cfg, call, signal, buildLocals>>
    /\ mainGoLoginIfRequired(targetContainerPath, Goto("push_version"))

\* src/main.go, lines 320-330
MainGoPushVersionTag ==
    /\ pc = "push_version"
    /\ UNCHANGED <<cfg, call, signal, buildLocals>>
    /\ IF cfg.pushVersionTag
       THEN Run(Cmd("docker", "push", <<Arg("", targetContainerPath)>>, FALSE),
                Goto("push_check"))
       ELSE Goto("push_check") /\ UNCHANGED <<log, inflight, exit>>

\* src/main.go, lines 332-334
MainGoPushCheckTags ==
    /\ pc = "push_check"
    /\ UNCHANGED <<cfg, call, signal, log, inflight, buildLocals>>
    /\ IF ~cfg.pushVersionTag /\ Len(tagsSlice) = 0
       THEN Fatal("configuration") /\ UNCHANGED <<idx, tidx>>
       ELSE Goto("push_cache") /\ UNCHANGED exit

\* src/main.go, lines 336-343: the cache image of the first repository is pushed
\* in every round of the loop, after the login of line 318 for the repository
\* the loop is at
MainGoPushCache ==
    /\ pc = "push_cache"
    /\ UNCHANGED <<cfg, call, signal, buildLocals>>
    /\ IF ~cfg.noCache
       THEN Run(Cmd("docker", "push", <<Arg("", cacheContainerPath)>>, FALSE),
                pc' = "push_tags" /\ tidx' = 1 /\ UNCHANGED idx)
       ELSE pc' = "push_tags" /\ tidx' = 1 /\ UNCHANGED <<idx, log, inflight, exit>>

\* src/main.go, lines 346-361: the head of the loop over tagsSlice, the continue
\* of line 348 and the tag
MainGoPushAdditionalTag ==
    /\ pc = "push_tags"
    /\ UNCHANGED <<cfg, call, signal, buildLocals>>
    /\ IF tidx > Len(tagsSlice)
       THEN pc' = "push" /\ idx' = idx + 1 /\ UNCHANGED <<tidx, log, inflight, exit>>
       ELSE IF /\ repositoriesSlice[idx] = repositoriesSlice[1]
               /\ tagsSlice[tidx] \in {estafetteBuildVersionAsTag, gitBranchAsTag}
       THEN pc' = "push_tags" /\ tidx' = tidx + 1 /\ UNCHANGED <<idx, log, inflight, exit>>
       ELSE Run(TagCmd(sourceContainerPath, targetTagPath, FALSE), Goto("push_tag_login"))

\* src/main.go, line 363
MainGoPushTagLogin ==
    /\ pc = "push_tag_login"
    /\ UNCHANGED <<cfg, call, signal, buildLocals>>
    /\ mainGoLoginIfRequired(targetTagPath, Goto("push_tag_push"))

\* src/main.go, lines 365-370
MainGoPushTagPush ==
    /\ pc = "push_tag_push"
    /\ UNCHANGED <<cfg, call, signal, buildLocals>>
    /\ Run(Cmd("docker", "push", <<Arg("", targetTagPath)>>, FALSE),
           pc' = "push_tags" /\ tidx' = tidx + 1 /\ UNCHANGED idx)

\* the git branches of the runs of src/main.go: a plain one, and one with a
\* character no tag may hold
GitBranches == {<<"m">>, <<"f", "/", "x">>}
CacheTag == <<"c", "a", "c", "h", "e", "-", "m">>

\* the credentials of src/main.go hold a repository, a username and a password
MainGoCredentials ==
    <<Credential(RepoGO, <<"u", "1">>, <<"p", "1">>, <<>>, <<>>),
      Credential(RepoGP, <<"u", "2">>, <<"p", "2">>, <<>>, <<>>),
      Credential(RepoE, <<"u", "3">>, <<"p", "3">>, <<>>, <<>>)>>

\* pushes of every list of repositories with and without the cache, and runs
\* without repositories or with an action the program does not know
MainGoCfgs ==
    {[gitBranch |-> b] @@
     [DefaultCfg EXCEPT !.action = a, !.repositories = Join(r, ","), !.tags = Join(t, ","),
                        !.credentials = c, !.pushVersionTag = v, !.noCache = nc] :
        a \in {"push"}, r \in RepositoryLists,
        t \in {<<>>, <<TagDev>>, <<CacheTag, TagDev>>, <<VersionTag>>},
        c \in {MainGoCredentials, <<>>}, v \in BOOLEAN, nc \in BOOLEAN,
        b \in GitBranches}
    \cup
    {[gitBranch |-> <<"m">>] @@
     [DefaultCfg EXCEPT !.action = a, !.repositories = RepoE] : a \in {"", "history"}}

InitMainGo ==
    /\ cfg \in MainGoCfgs
    /\ Started
    /\ call = NoCall

SpecMainGo ==
    InitMainGo /\ [][\/ MainGoBegin
                     \/ MainGoPushRepository \/ MainGoPushLogin \/ MainGoPushVersionTag
                     \/ MainGoPushCheckTags \/ MainGoPushCache
                     \/ MainGoPushAdditionalTag \/ MainGoPushTagLogin \/ MainGoPushTagPush]_vars

(***************************************************************************)
(* Specifications of single functions: the arguments are drawn from        *)
(* bounded sets and the function is applied once.                          *)
(***************************************************************************)

\* main() is not running
Idle ==
    /\ cfg = DefaultCfg
    /\ pc = "call"
    /\ idx = 1
    /\ tidx = 1
    /\ log = <<>>
    /\ exit = [status |-> "running", kind |-> ""]
    /\ fromImagePaths = <<>>
    /\ dockerLayerCachingPaths = <<>>
    /\ bucketName = <<>>
    /\ inflight = {}
    /\ signal = FALSE

mainVars == <<cfg, pc, idx, tidx, log, exit, fromImagePaths, dockerLayerCachingPaths, bucketName,
             inflight, signal>>

\* the longest lists of credentials and of images handed to getCredentialsForContainers
MaxCredentials == 2
MaxImages == 2

ResolveCredentials == {CredE, CredGO, CredGODenied, CredG}
ResolveImages == {<<"e", "/", "c", ":", "1">>, <<"e", "-", "i", "/", "f", ":", "1">>, <<"g", "/", "o", "/", "c", ":", "1">>, <<"g", "/", "o", "/", "d", ":", "2">>, <<"g", "/", "c">>, <<"c", ":", "1">>}

InitResolve ==
    /\ Idle
    /\ call \in {[fn |-> "getCredentialsForContainers",
                  args |-> [credentials |-> cs, containerImages |-> is],
                  done |-> FALSE, result |-> EmptyMap] :
                    cs \in SeqsUpTo(ResolveCredentials, MaxCredentials),
                    is \in SeqsUpTo(ResolveImages, MaxImages)}

CallGetCredentialsForContainers ==
    /\ call.fn = "getCredentialsForContainers"
    /\ ~call.done
    /\ call' = [call EXCEPT !.done = TRUE,
                            !.result = getCredentialsForContainers(
                                           call.args.credentials, call.args.containerImages)]
    /\ UNCHANGED mainVars

SpecResolve == InitResolve /\ [][CallGetCredentialsForContainers]_vars

\* allow-list patterns and the parts of pipeline paths
AllowPatterns == {<<>>, <<"s", "/", "o", "/", "n">>, <<" ", "s", "/", "o", "/", "n", " ">>, <<"s", "/", "o", "/", ".", "*">>, <<"s", "/", "o", "/", "n", "|", "s", "/", "o", "/", "m">>, <<"o">>, <<".", "*">>, <<" ">>, <<"s", ".", "o", ".", "n">>}
GitSources == {<<"s">>, <<"a", "s">>}
GitOwners == {<<"o">>, <<"p">>}
GitNames == {<<"n">>, <<"m">>, <<"n", "n">>, <<"m", "x">>}

InitAllowed ==
    /\ Idle
    /\ call \in {[fn |-> "isAllowedPipelineForPush",
                  args |-> [credential |-> Credential(RepoE, <<"u">>, <<"p">>, a, <<>>),
                            fullRepositoryPath |-> SlashJoin3(s, o, n)],
                  done |-> FALSE, result |-> FALSE] :
                    a \in AllowPatterns, s \in GitSources, o \in GitOwners, n \in GitNames}

CallIsAllowedPipelineForPush ==
    /\ call.fn = "isAllowedPipelineForPush"
    /\ ~call.done
    /\ call' = [call EXCEPT !.done = TRUE,
                            !.result = isAllowedPipelineForPush(
                                           call.args.credential, call.args.fullRepositoryPath)]
    /\ UNCHANGED mainVars

SpecAllowed == InitAllowed /\ [][CallIsAllowedPipelineForPush]_vars

(***************************************************************************)
(* Properties.                                                             *)
(***************************************************************************)

\* the positions of the log that hold a command with the given verb
Commands(verb) == {k \in 1..Len(log) : log[k].verb = verb}

\* the values a command carries for a flag ("" for its positional arguments)
FlagValues(cmd, f) == {cmd.args[j].v : j \in {j \in DOMAIN cmd.args : cmd.args[j].f = f}}

\* an image reference with its final "/"-separated name:tag component removed
RepoPortion(image) ==
    LET S == {i \in DOMAIN image : image[i] = "/"}
    IN  IF S = {} THEN <<>> ELSE SubSeq(image, 1, Greatest(S) - 1)

\* the segment of a repository prefix before its first "/"
RegistryHost(prefix) ==
    SubSeq(prefix, 1, Least({i \in DOMAIN prefix : prefix[i] = "/"}) - 1)

\* the host argument a login with credential c is to carry: none for a prefix without "/"
HostsOf(c) ==
    IF \E i \in DOMAIN c.repository : c.repository[i] = "/"
    THEN {RegistryHost(c.repository)} ELSE {}

Terminated == exit.status # "running"
Succeeded == exit.status = "success"

\* C1: every docker login carries the username and the password of one configured
\* credential whose repository prefix is the repository portion of the image the
\* login was made for, and as host the first segment of that same credential's
\* prefix (no host when the prefix has no "/"); a credential's password is never
\* sent for an image the credential does not match or with another host.
C1_LoginUsesTheMatchedCredential ==
    \A k \in Commands("login") :
        LET cmd == log[k]
            image == cmd.images[1]
        IN  /\ \E i \in DOMAIN cfg.credentials :
                   LET c == cfg.credentials[i]
                   IN  /\ c.repository = RepoPortion(image)
                       /\ FlagValues(cmd, "--username") = {c.username}
                       /\ FlagValues(cmd, "--password") = {c.password}
                       /\ FlagValues(cmd, "") = HostsOf(c)
            /\ \A i \in DOMAIN cfg.credentials :
                   LET c == cfg.credentials[i]
                   IN  c.password \in FlagValues(cmd, "--password") =>
                           /\ c.repository = RepoPortion(image)
                           /\ FlagValues(cmd, "") = HostsOf(c)

\* a run that logged in to a registry host with one credential and to Docker Hub
\* (no host) with another
C1_Witness ==
    \E j \in Commands("login") : \E k \in Commands("login") :
        /\ FlagValues(log[j], "") = {<<"g">>}
        /\ FlagValues(log[k], "") = {}
        /\ FlagValues(log[j], "--password") # FlagValues(log[k], "--password")
        /\ log[j].code = 0 /\ log[k].code = 0

\* C2: getCredentialsForContainers returns a credential for an image exactly when
\* some credential's repository prefix equals the image's repository portion; the
\* credential returned then has that prefix, and nothing else is returned.
C2_ExactPrefixMatch ==
    (call.fn = "getCredentialsForContainers" /\ call.done) =>
        LET credentials == call.args.credentials
            containerImages == call.args.containerImages
            found == call.result
        IN  /\ \A n \in DOMAIN containerImages :
                   LET repo == RepoPortion(containerImages[n])
                   IN  (\E i \in DOMAIN credentials : credentials[i].repository = repo)
                           <=> (repo \in DOMAIN found)
            /\ \A repo \in DOMAIN found :
                   /\ found[repo].repository = repo
                   /\ \E i \in DOMAIN credentials : credentials[i] = found[repo]
                   /\ \E n \in DOMAIN containerImages : RepoPortion(containerImages[n]) = repo

\* the credential for "e" is returned for e/c:1 and nothing is returned for e-i/f:1
C2_Witness ==
    /\ call.fn = "getCredentialsForContainers" /\ call.done
    /\ call.args.containerImages = <<<<"e", "-", "i", "/", "f", ":", "1">>, <<"e", "/", "c", ":", "1">>>>
    /\ call.args.credentials = <<CredG, CredE>>
    /\ DOMAIN call.result = {RepoE}
    /\ call.result[RepoE] = CredE

\* the text matches one alternative of the pattern from its first to its last character
FullMatch(pattern, text) ==
    LET alts == Split(pattern, "|")
    IN  \E a \in 1..Len(alts) : MatchHere(<<"^">> \o alts[a] \o <<"$">>, text, 1)

\* C3: with a non-empty allow-list, isAllowedPipelineForPush is true exactly when
\* the whole pipeline path matches the trimmed allow-list pattern; a match of a
\* part of the path does not grant permission.
C3_WholePathMustMatch ==
    (call.fn = "isAllowedPipelineForPush" /\ call.done
        /\ call.args.credential.allowedPipelinesToPush # <<>>) =>
        (call.result
            <=> FullMatch(TrimSpace(call.args.credential.allowedPipelinesToPush),
                          call.args.fullRepositoryPath))

\* the image a command is about: the image of a login, the target of a tag, the
\* image of a push or pull
TargetOf(cmd) ==
    IF cmd.verb = "login" THEN cmd.images[1]
    ELSE cmd.args[Len(cmd.args)].v

\* the positions of the log at which image was pushed
Pushed(image) == {k \in Commands("push") : TargetOf(log[k]) = image /\ log[k].code = 0}

\* the credentials configured for repository r whose allow-list does not match the pipeline
DeniedCredentials(r) ==
    {c \in Range(cfg.credentials) :
        /\ c.repository = r
        /\ c.allowedPipelinesToPush # <<>>
        /\ ~FullMatch(TrimSpace(c.allowedPipelinesToPush), fullRepositoryPath)}

\* the credential resolved for repository r is one the pipeline may not push with
Disallowed(r) ==
    \E i \in DOMAIN cfg.credentials :
        /\ cfg.credentials[i] \in DeniedCredentials(r)
        /\ \A j \in 1..(i - 1) : cfg.credentials[j].repository # r

\* C4: in a push to several repositories of which one has a credential whose
\* allow-list does not match the pipeline, no login is issued with that
\* credential, and unless a command for an allowed target fails the action ends
\* successfully with the version tag pushed to every allowed repository.
C4_DisallowedTargetDoesNotStopThePush ==
    (/\ cfg.action = "push"
     /\ Len(repositoriesSlice) >= 2
     /\ ~pushNeedsTag
     /\ \E n \in DOMAIN repositoriesSlice : Disallowed(repositoriesSlice[n])) =>
        /\ \A k \in Commands("login") : ~Disallowed(RepoPortion(TargetOf(log[k])))
        /\ (/\ Terminated
            /\ \A k \in DOMAIN log :
                   log[k].code # 0 => Disallowed(RepoPortion(TargetOf(log[k])))) =>
               /\ Succeeded
               /\ \A n \in DOMAIN repositoriesSlice :
                      (cfg.pushVersionTag /\ ~Disallowed(repositoriesSlice[n])) =>
                          Pushed(ImagePath(repositoriesSlice[n], container,
                                           estafetteBuildVersionAsTag)) # {}

\* the tag of an image reference: what follows its last ":"
TagOf(image) ==
    SubSeq(image, Greatest({i \in DOMAIN image : image[i] = ":"}) + 1, Len(image))

\* the tag and push commands of the log, in order, as <<verb, source, target>>
RECURSIVE StepsOf(_)
StepsOf(l) ==
    IF Len(l) = 0 THEN <<>>
    ELSE (IF Head(l).verb = "tag"
          THEN <<[verb |-> "tag", src |-> Head(l).args[1].v, dst |-> Head(l).args[2].v]>>
          ELSE IF Head(l).verb = "push"
          THEN <<[verb |-> "push", src |-> <<>>, dst |-> Head(l).args[1].v]>>
          ELSE <<>>) \o StepsOf(Tail(l))

TagStep(src, dst) == [verb |-> "tag", src |-> src, dst |-> dst]
PushStep(dst) == [verb |-> "push", src |-> <<>>, dst |-> dst]

\* the release reference of repository n with tag t, and the canonical source
Ref(n, t) == ImagePath(repositoriesSlice[n], container, t)
SourceRef == ImagePath(repositoriesSlice[1], container, estafetteBuildVersionAsTag)

\* the steps of the push action for the additional tags from position m of
\* repository n: tag and push, but for the version tag on the first repository
RECURSIVE TagStepsOfPush(_, _)
TagStepsOfPush(n, m) ==
    IF m > Len(tagsSlice) THEN <<>>
    ELSE (IF repositoriesSlice[n] = repositoriesSlice[1]
             /\ tagsSlice[m] = estafetteBuildVersionAsTag
          THEN <<>>
          ELSE <<TagStep(SourceRef, Ref(n, tagsSlice[m])), PushStep(Ref(n, tagsSlice[m]))>>)
         \o TagStepsOfPush(n, m + 1)

\* the steps of the push action from repository n on: each repository is
\* finished, version tag first and then its additional tags, before the next
RECURSIVE StepsOfPush(_)
StepsOfPush(n) ==
    IF n > Len(repositoriesSlice) THEN <<>>
    ELSE (IF n > 1 THEN <<TagStep(SourceRef, Ref(n, estafetteBuildVersionAsTag))>> ELSE <<>>)
         \o (IF cfg.pushVersionTag THEN <<PushStep(Ref(n, estafetteBuildVersionAsTag))>> ELSE <<>>)
         \o TagStepsOfPush(n, 1)
         \o StepsOfPush(n + 1)

IsPrefix(s, t) == Len(s) <= Len(t) /\ SubSeq(t, 1, Len(s)) = s

\* C5 (as stated): in the push action the version tag is pushed for every
\* repository before any additional tag is tagged or pushed.
C5_VersionTagsBeforeAdditionalTags ==
    cfg.action = "push" =>
        \A j \in DOMAIN log : \A k \in DOMAIN log :
            (/\ j < k
             /\ log[j].verb \in {"tag", "push"}
             /\ TagOf(TargetOf(log[j])) # estafetteBuildVersionAsTag
             /\ log[k].verb \in {"tag", "push"}) =>
                TagOf(TargetOf(log[k])) # estafetteBuildVersionAsTag

\* C5 (amended): the push action handles the repositories one after the other in
\* list order; for each it tags (all but the first) and pushes the version tag and
\* then tags and pushes each additional tag in order, skipping the version tag on
\* the first repository, before it turns to the next repository.
C5_RepositoryByRepository ==
    cfg.action = "push" =>
        LET steps == StepsOf(log)
            expected == StepsOfPush(1)
        IN  /\ IsPrefix(steps, expected)
            /\ Succeeded => steps = expected

\* the push of repositories g/o and e with additional tag d has ended successfully
C5_Witness ==
    /\ cfg.action = "push" /\ Succeeded
    /\ repositoriesSlice = <<RepoGO, RepoE>> /\ tagsSlice = <<TagDev>> /\ cfg.pushVersionTag
    /\ StepsOf(log) =
         <<PushStep(<<"g", "/", "o", "/", "c", ":", "1", "-", "2">>),
           TagStep(<<"g", "/", "o", "/", "c", ":", "1", "-", "2">>, <<"g", "/", "o", "/", "c", ":", "d">>), PushStep(<<"g", "/", "o", "/", "c", ":", "d">>),
           TagStep(<<"g", "/", "o", "/", "c", ":", "1", "-", "2">>, <<"e", "/", "c", ":", "1", "-", "2">>), PushStep(<<"e", "/", "c", ":", "1", "-", "2">>),
           TagStep(<<"g", "/", "o", "/", "c", ":", "1", "-", "2">>, <<"e", "/", "c", ":", "d">>), PushStep(<<"e", "/", "c", ":", "d">>)>>

\* C6: every push action that ends successfully has issued at least one docker
\* push of a release image reference.
C6_SuccessfulPushHasPushed ==
    (cfg.action = "push" /\ Succeeded) =>
        \E n \in DOMAIN repositoriesSlice :
            \E t \in {estafetteBuildVersionAsTag} \cup Range(tagsSlice) :
                Pushed(Ref(n, t)) # {}

\* C7: the push action with pushVersionTag=false and no additional tag issues no
\* external command and ends fatally as a configuration error.
C7_FatalBeforeAnyCommand ==
    (cfg.action = "push" /\ ~cfg.pushVersionTag /\ Len(tagsSlice) = 0) =>
        /\ log = <<>> /\ inflight = {}
        /\ Terminated => exit = [status |-> "fatal", kind |-> "configuration"]

\* the positions of the log at which image was pulled
Pulled(image) == {k \in Commands("pull") : TargetOf(log[k]) = image /\ log[k].code = 0}

\* the positions of the log at which dst was tagged from the canonical source
Tagged(dst) ==
    {k \in Commands("tag") :
        log[k].args[1].v = SourceRef /\ log[k].args[2].v = dst /\ log[k].code = 0}

\* C8: the tag action begins by logging in with the credential of the canonical
\* source image, if there is one, and pulling that image; no tag or push is issued
\* before that pull has succeeded; no build command is issued; and when the action
\* ends successfully every requested repository has every requested tag, tagged
\* from the source and then pushed.
C8_TagPromotesThePulledSource ==
    cfg.action = "tag" =>
        /\ Commands("build") = {}
        /\ \A k \in Commands("tag") \cup Commands("push") :
               \E j \in Pulled(SourceRef) : j < k
        /\ log # <<>> =>
               LET cs == {i \in DOMAIN cfg.credentials :
                             cfg.credentials[i].repository = repositoriesSlice[1]}
               IN  IF cs = {}
                   THEN log[1].verb = "pull" /\ TargetOf(log[1]) = SourceRef
                   ELSE /\ log[1].verb = "login" /\ TargetOf(log[1]) = SourceRef
                        /\ FlagValues(log[1], "--password") =
                               {cfg.credentials[Least(cs)].password}
                        /\ Len(log) >= 2 =>
                               log[2].verb = "pull" /\ TargetOf(log[2]) = SourceRef
        /\ Succeeded =>
               \A n \in DOMAIN repositoriesSlice : \A m \in DOMAIN tagsSlice :
                   \E j \in Tagged(Ref(n, tagsSlice[m])) :
                       \E k \in Pushed(Ref(n, tagsSlice[m])) : j < k

\* a tag action over two repositories and two tags has ended successfully
C8_Witness ==
    /\ cfg.action = "tag" /\ Succeeded
    /\ repositoriesSlice = <<RepoGO, RepoE>>
    /\ tagsSlice = <<TagDev, VersionTag>>
    /\ log[1].verb = "login"
    /\ Pulled(SourceRef) # {}
    /\ Pushed(Ref(2, TagDev)) # {}

\* C9: the history action reads the image history at most twice and pulls at most
\* once; when the first read succeeds the action ends successfully without a pull;
\* when it fails one pull follows and, if the pull succeeds, one more read; a
\* failure of the pull or of the second read is fatal.
C9_HistoryRetriesOnce ==
    cfg.action = "history" =>
        LET reads == Commands("history")
            pulls == Commands("pull")
        IN  /\ Cardinality(reads) <= 2
            /\ Cardinality(pulls) <= 1
            /\ \A p \in pulls :
                   /\ p - 1 \in reads /\ log[p - 1].code # 0
                   /\ \A r \in reads : r < p => r = p - 1
                   /\ TargetOf(log[p]) = TargetOf(log[p - 1])
            /\ \A r \in reads :
                   \/ \A q \in reads : r <= q
                   \/ r - 1 \in pulls /\ log[r - 1].code = 0
            /\ Terminated =>
                   \/ reads = {}
                        /\ exit.status = "fatal" /\ Commands("login") # {}
                   \/ Cardinality(reads) = 1 /\ pulls = {}
                        /\ log[Least(reads)].code = 0 /\ Succeeded
                   \/ Cardinality(reads) = 1 /\ Cardinality(pulls) = 1
                        /\ log[Least(pulls)].code # 0 /\ exit.status = "fatal"
                   \/ Cardinality(reads) = 2 /\ Cardinality(pulls) = 1
                        /\ log[Least(pulls)].code = 0
                        /\ (log[Greatest(reads)].code = 0 <=> Succeeded)
                        /\ (log[Greatest(reads)].code # 0 <=> exit.status = "fatal")

\* the first read failed, the image was pulled and the second read succeeded
C9_Witness ==
    /\ cfg.action = "history" /\ Succeeded
    /\ Cardinality(Commands("history")) = 2
    /\ Cardinality(Commands("pull")) = 1
    /\ log[Least(Commands("history"))].code = 1

\* the build of the final stage: the build command without a --target
FinalBuilds == {k \in Commands("build") : FlagValues(log[k], "--target") = {}}

\* the positions at which the scanner was run on the saved primary image after
\* the build of the final stage
Scans ==
    {k \in Commands("image") :
        /\ log[k].prog = "/trivy"
        /\ \E b \in FinalBuilds : \E s \in Commands("save") :
               /\ b < s /\ s < k
               /\ SourceRef \in FlagValues(log[b], "--tag")
               /\ log[b].code = 0 /\ log[s].code = 0
               /\ FlagValues(log[s], "") = {SourceRef}
               /\ FlagValues(log[k], "--input") = FlagValues(log[s], "-o")}

\* C10 (as stated): every build action that ends successfully has run the scanner
\* on the built primary image after the build of the final stage, on every platform.
C10_SuccessfulBuildWasScanned ==
    (cfg.action = "build" /\ Succeeded) => Scans # {}

\* C10 (amended): every build action that ends successfully on a platform other
\* than Windows has run the scanner on the built primary image after the build of
\* the final stage; on Windows the build ends without running the scanner.
C10_SuccessfulBuildWasScannedUnlessWindows ==
    (cfg.action = "build" /\ Succeeded) =>
        IF cfg.goos = "windows" THEN Commands("image") = {} /\ FinalBuilds # {}
        ELSE Scans # {}

\* a build on linux has ended successfully after the scan
C10_Witness ==
    /\ cfg.action = "build" /\ Succeeded
    /\ cfg.goos = "linux"
    /\ Scans # {}
    /\ Len(fromImagePaths) = 2

\* C11: once the scanner has run, the build ends at once; it ends successfully
\* only when the scanner exited with 0 or with exit status 1, the tolerated
\* "unknown OS" error; the vulnerability exit code and every other exit of the
\* scanner end the build fatally.
C11_OnlyTheToleratedScanExitPasses ==
    cfg.action = "build" =>
        \A k \in Commands("image") :
            /\ k = Len(log)
            /\ Terminated
            /\ Succeeded <=> log[k].code \in {0, 1}
            /\ log[k].code \notin {0, 1} =>
                   exit = [status |-> "fatal", kind |-> "vulnerability"]
            /\ log[k].code = VulnerabilityExitCode => ~Succeeded

\* the scanner exited with the vulnerability exit code and the build was fatal
C11_Witness ==
    /\ cfg.action = "build"
    /\ \E k \in Commands("image") : log[k].code = VulnerabilityExitCode
    /\ exit.status = "fatal"

(***************************************************************************)
(* The severity filter for every spelling of the minimum severity.         *)
(***************************************************************************)

SeverityLevels == <<SevUnknown, SevLow, SevMedium, SevHigh, SevCritical>>

\* a letter in lower case
ToLowerChar(c) ==
    IF \E i \in DOMAIN UpperSeq : UpperSeq[i] = c
    THEN LowerSeq[CHOOSE i \in DOMAIN UpperSeq : UpperSeq[i] = c] ELSE c

\* every spelling of the word w in upper and lower case letters
RECURSIVE Spellings(_)
Spellings(w) ==
    IF w = <<>> THEN {<<>>}
    ELSE {<<c>> \o r : c \in {w[1], ToLowerChar(w[1])}, r \in Spellings(Tail(w))}

\* the values of --minimum-severity-to-fail: the levels in every spelling and
\* some values that are no level
SeverityInputs ==
    UNION {Spellings(SeverityLevels[i]) : i \in DOMAIN SeverityLevels}
    \cup {<<>>, <<"N", "O", "N", "E">>, <<"H", "I", "G", "H", " ">>}

InitSeverity ==
    /\ cfg \in {[DefaultCfg EXCEPT !.action = "build", !.minimumSeverityToFail = s] :
                   s \in SeverityInputs}
    /\ pc = "call"
    /\ idx = 1
    /\ tidx = 1
    /\ log = <<>>
    /\ exit = [status |-> "running", kind |-> ""]
    /\ fromImagePaths = <<>>
    /\ dockerLayerCachingPaths = <<>>
    /\ bucketName = <<>>
    /\ inflight = {}
    /\ signal = FALSE
    /\ call = [fn |-> "severityArgument", args |-> <<>>, done |-> FALSE, result |-> <<>>]

CallSeverityArgument ==
    /\ call.fn = "severityArgument"
    /\ ~call.done
    /\ call' = [call EXCEPT !.done = TRUE, !.result = severityArgument]
    /\ UNCHANGED mainVars

SpecSeverity == InitSeverity /\ [][CallSeverityArgument]_vars

\* C12: for a minimum severity that is, in any spelling of upper and lower case,
\* the level i of UNKNOWN < LOW < MEDIUM < HIGH < CRITICAL, the filter is the
\* comma-separated list of the levels from i on in ascending order; the filter
\* of a higher minimum is therefore a tail of the filter of a lower one.
C12_SeverityFilterIsTheUpperLevels ==
    (call.fn = "severityArgument" /\ call.done) =>
        \A i \in DOMAIN SeverityLevels :
            ToUpper(cfg.minimumSeverityToFail) = SeverityLevels[i] =>
                /\ Split(call.result, ",") = SubSeq(SeverityLevels, i, Len(SeverityLevels))
                /\ \A j \in 1..i :
                       \E n \in 0..Len(SeverityLevels) :
                           SubSeq(SeverityLevels, j, Len(SeverityLevels)) =
                               SubSeq(SeverityLevels, j, j + n - 1) \o Split(call.result, ",")

\* the filter for "high" is HIGH,CRITICAL
C12_Witness ==
    /\ call.fn = "severityArgument" /\ call.done
    /\ cfg.minimumSeverityToFail = <<"h", "i", "g", "h">>
    /\ call.result = <<"H", "I", "G", "H", ",", "C", "R", "I", "T", "I", "C", "A", "L">>

\* the verbs of the commands whose failure is fatal by default
FatalVerbs == {"build", "push", "pull", "tag", "login"}

\* C13: in every action, a build, push, pull, tag or login command that exited
\* non-zero is the last command of the run: the process has terminated with
\* failure, nothing was issued after it and it was not issued again.
C13_FailedCommandEndsTheRun ==
    \A k \in DOMAIN log :
        (log[k].verb \in FatalVerbs /\ log[k].code # 0) =>
            /\ k = Len(log)
            /\ inflight = {}
            /\ exit = [status |-> "fatal", kind |-> "command"]
            /\ \A j \in DOMAIN log : j > k => log[j].args # log[k].args

\* a push failed after earlier commands had succeeded
C13_Witness ==
    /\ Len(log) > 1
    /\ log[Len(log)].verb = "push"
    /\ log[Len(log)].code # 0
    /\ exit.status = "fatal"

\* C15: at most one external command is in flight at any time, and a command
\* is in flight only while the process runs; a command is issued only when
\* none is in flight.
C15_OneCommandAtATime ==
    /\ Cardinality(inflight) <= 1
    /\ inflight # {} => Running

\* a login is in flight after an earlier command has run to completion
C15_Witness ==
    /\ log # <<>>
    /\ \E c \in inflight : c.verb = "login"
    /\ Cardinality(inflight) = 1

\* C14: once a termination signal has arrived, the command that was in flight
\* has been terminated and no command, of whatever kind, is started any more.
C14_SignalStopsEveryCommand ==
    /\ \A c \in inflight \cup Range(log) : c.signalled # "before"
    /\ \A k \in DOMAIN log : log[k].signalled = "inflight" => log[k].code = Killed

\* C16: the build command of the final stage carries a --tag for every
\* combination of a repository and a tag: for every repository the version
\* tag and every requested additional tag, with caching enabled or disabled.
C16_FinalBuildTagsEveryCombination ==
    cfg.action = "build" =>
        \A k \in FinalBuilds :
            \A i \in DOMAIN repositoriesSlice :
                \A t \in {estafetteBuildVersionAsTag} \cup Range(tagsSlice) :
                    ImagePath(repositoriesSlice[i], container, t) \in FlagValues(log[k], "--tag")

\* the references of the cache images of the stages
CacheRefs == {dockerLayerCachingPath(i) : i \in DOMAIN fromImagePaths}

\* C17: with caching disabled by noCache, the build action issues one build
\* command and no more, and exactly one once the build has been made; that
\* command carries --no-cache, no --cache-from, no inline-cache build argument
\* and no --target, so it covers all stages; the action tags and pushes no
\* cache image.
C17_NoCacheBuildsOnceWithoutCache ==
    (cfg.action = "build" /\ cfg.noCache) =>
        /\ Cardinality(Commands("build")) <= 1
        /\ (Succeeded \/ Commands("save") # {}) => Cardinality(Commands("build")) = 1
        /\ \A k \in Commands("build") :
               /\ FlagValues(log[k], "--no-cache") # {}
               /\ FlagValues(log[k], "--cache-from") = {}
               /\ InlineCacheArg \notin FlagValues(log[k], "--build-arg")
               /\ FlagValues(log[k], "--target") = {}
               /\ FlagValues(log[k], "--tag") \cap CacheRefs = {}
        /\ Commands("push") = {} /\ Commands("tag") = {}
        /\ \A c \in inflight : c.verb \notin {"push", "tag"}

\* a Dockerfile of two stages was built without cache, with the build
\* arguments of the user, and the build has succeeded
C17_Witness ==
    /\ cfg.action = "build" /\ cfg.noCache /\ cfg.goos = "linux"
    /\ Succeeded
    /\ Len(fromImagePaths) = 2
    /\ \E k \in Commands("build") :
           /\ FlagValues(log[k], "--no-cache") # {}
           /\ FlagValues(log[k], "--build-arg") # {}

(***************************************************************************)
(* tidyTag on its own: applied to a string, and applied again to its       *)
(* result.                                                                 *)
(***************************************************************************)

\* the longest of the strings that are enumerated in full
MaxTagInput == 3

\* letters, a digit, the three punctuation marks of a tag, and characters that
\* are not allowed in a tag
TagInputChars == {"a", "B", "1", "_", ".", "-", "/", " "}

\* the string of n characters that repeats the pattern
Repeated(pattern, n) == [i \in 1..n |-> pattern[((i - 1) % Len(pattern)) + 1]]

\* strings around the maximum length of a tag, with and without runs of
\* disallowed characters
LongTagInputs ==
    {Repeated(pattern, n) :
        pattern \in {<<"a">>, <<"a", "/">>, <<"a", "/", "/">>, <<".", "b", " ", "/", "-">>},
        n \in {MaxTagLength - 1, MaxTagLength, MaxTagLength + 1,
              MaxTagLength + (MaxTagLength \div 2) + MaxTagInput}}

\* the build versions of TestTidyBuildVersionAsTag
TestedTagInputs ==
    {<<"1", ".", "0", ".", "2", "3", "-", "b", "e", "t", "a", "_", "B">>,
     <<"0", ".", "0", ".", "1", "8", "7", "-", "r", "e", "l", "e", "a", "s", "e", "/",
       "r", "e", "l", "e", "a", "s", "e", "-", "x">>}

TagInputs ==
    UNION {[1..n -> TagInputChars] : n \in 0..MaxTagInput}
    \cup LongTagInputs \cup TestedTagInputs

InitTidyTag ==
    /\ Idle
    /\ call \in {[fn |-> "tidyTag", args |-> <<s>>, done |-> FALSE, result |-> <<>>] :
                    s \in TagInputs}

\* tag := tidyTag(buildVersion)
CallTidyTag ==
    /\ call.fn = "tidyTag"
    /\ ~call.done
    /\ call' = [call EXCEPT !.done = TRUE, !.result = tidyTag(call.args[1])]
    /\ UNCHANGED mainVars

\* tidyTag applied to the result of tidyTag, as main does with the version tag
\* when a prefix or a suffix is set (lines 549-555)
CallTidyTagAgain ==
    /\ call.fn = "tidyTag"
    /\ call.done
    /\ call' = [fn |-> "tidyTag(tidyTag)", args |-> <<call.args[1], call.result>>,
                done |-> TRUE, result |-> tidyTag(call.result)]
    /\ UNCHANGED mainVars

SpecTidyTag == InitTidyTag /\ [][CallTidyTag \/ CallTidyTagAgain]_vars

\* C18: tidyTag applied to a result of tidyTag returns that result, and a
\* result of tidyTag is at most 128 characters long.
C18_TidyTagIsIdempotentAndBounded ==
    /\ (call.fn = "tidyTag" /\ call.done) => Len(call.result) <= 128
    /\ call.fn = "tidyTag(tidyTag)" =>
           /\ call.result = call.args[2]
           /\ Len(call.result) <= 128

\* tidyTag was applied again to the result for a string that is longer than a
\* tag may be and holds characters that are not allowed
C18_Witness ==
    /\ call.fn = "tidyTag(tidyTag)"
    /\ Len(call.args[1]) > 128
    /\ \E i \in DOMAIN call.args[1] : call.args[1][i] \notin TagChars
    /\ call.result # call.args[1]
    /\ Len(call.result) = 128

\* C19: the result of tidyTag consists of letters, digits, underscores, periods
\* and dashes only, and does not start with a period or a dash.
C19_TidyTagIsAValidTag ==
    (call.fn = "tidyTag" /\ call.done) =>
        /\ \A i \in DOMAIN call.result : call.result[i] \in TagChars
        /\ call.result # <<>> => call.result[1] \notin {".", "-"}

\* the positions of s that are kept: the allowed characters and the first
\* character of every run of disallowed ones
KeptPositions(s) ==
    {i \in DOMAIN s : s[i] \in TagChars \/ i = 1 \/ s[i - 1] \in TagChars}

\* C20: the result of tidyTag is its argument with every maximal run of
\* characters outside [A-Za-z0-9_.-] replaced by a single dash and all other
\* characters kept in their order, cut after 128 characters; an argument of at
\* most 128 allowed characters is returned unchanged.
C20_TidyTagReplacesRunsByOneDash ==
    (call.fn = "tidyTag" /\ call.done) =>
        LET s == call.args[1]
            kept == KeptPositions(s)
            rank(i) == Cardinality({j \in kept : j <= i})
        IN  /\ Len(call.result) = IF Cardinality(kept) < 128 THEN Cardinality(kept) ELSE 128
            /\ \A i \in kept :
                   rank(i) <= 128 =>
                       call.result[rank(i)] = IF s[i] \in TagChars THEN s[i] ELSE "-"
            /\ (Len(s) <= 128 /\ \A i \in DOMAIN s : s[i] \in TagChars) => call.result = s

\* the build version of the test with a slash: the slash is replaced by a dash
C20_Witness ==
    /\ call.fn = "tidyTag" /\ call.done
    /\ call.args[1] = <<"0", ".", "0", ".", "1", "8", "7", "-", "r", "e", "l", "e", "a", "s", "e", "/",
                        "r", "e", "l", "e", "a", "s", "e", "-", "x">>
    /\ call.result = <<"0", ".", "0", ".", "1", "8", "7", "-", "r", "e", "l", "e", "a", "s", "e", "-",
                       "r", "e", "l", "e", "a", "s", "e", "-", "x">>

(***************************************************************************)
(* getFromImagePathsFromDockerfile on its own, for Dockerfiles made of a   *)
(* few lines and for the Dockerfiles of its tests.                         *)
(***************************************************************************)

\* the most lines of an enumerated Dockerfile
MaxLines == 2

\* lines of a Dockerfile: FROM lines in several spellings, with and without an
\* alias and surrounding white space, and lines that are no FROM line
DockerfileLines ==
    {<<"F", "R", "O", "M", " ", "n">>,
     <<"f", "r", "o", "m", " ", "g", "/", "o", "/", "b", " ", "a", "s", " ", "s">>,
     <<" ", " ", "F", "R", "O", "M", " ", "e", "/", "a", ":", "1", " ", "A", "S", " ", "t", " ">>,
     <<"F", "r", "o", "m", " ", "$", "r", "/", "i", "\r">>,
     <<"R", "U", "N", " ", "x">>,
     <<>>,
     <<"F", "R", "O", "M">>,
     <<"b">>,
     <<"A", "S", " ", "u">>,
     <<"F", "R", "O", "M", " ", "a", " ", "b">>}

\* the Dockerfiles of TestGetFromImagePathsFromDockerfile, the long ones cut
\* after their first lines, and the FROM nginx of the specification
TestedDockerfiles ==
    {<<"F", "R", "O", "M", " ", "d", "o", "c", "k", "e", "r", ":", "1", "9", ".", "0", "3", ".", "1", "3", "\n", "\n", "R", "U", "N", " ", "a", "p", "k", " ", "u", "p", "d", "a", "t", "e", " ", "\\", "\n", " ", " ", " ", " ", "&", "&", " ", "g", "i", "t", " ", "v", "e", "r", "s", "i", "o", "n">>,
     <<"F", "R", "O", "M", " ", "p", "r", "o", "m", "/", "p", "r", "o", "m", "e", "t", "h", "e", "u", "s", "\n">>,
     <<"F", "R", "O", "M", " ", "p", "r", "o", "m", "/", "p", "r", "o", "m", "e", "t", "h", "e", "u", "s", ":", "l", "a", "t", "e", "s", "t">>,
     <<"F", "R", "O", "M", " ", "p", "r", "o", "m", "/", "p", "r", "o", "m", "e", "t", "h", "e", "u", "s", ":", "l", "a", "t", "e", "s", "t", " ", "A", "S", " ", "b", "u", "i", "l", "d", "e", "r">>,
     <<"f", "r", "o", "m", " ", "p", "r", "o", "m", "/", "p", "r", "o", "m", "e", "t", "h", "e", "u", "s", ":", "l", "a", "t", "e", "s", "t", " ", "a", "s", " ", "b", "u", "i", "l", "d", "e", "r", "\n", "R", "U", "N", " ", "s", "o", "m", "e", "c", "o", "m", "m", "a", "n", "d", "\n", "\n", "\n", "F", "R", "O", "M", " ", "g", "r", "a", "f", "a", "n", "a", "/", "g", "r", "a", "f", "a", "n", "a", ":", "6", ".", "1", ".", "4", "\n", "\n", "C", "O", "P", "Y", " ", "-", "-", "f", "r", "o", "m", "=", "b", "u", "i", "l", "d", "e", "r", " ", "/", "a", "p", "p", " ", ".">>,
     <<"F", "R", "O", "M", " ", "m", "c", "r", ".", "m", "i", "c", "r", "o", "s", "o", "f", "t", ".", "c", "o", "m", "/", "d", "o", "t", "n", "e", "t", "/", "r", "u", "n", "t", "i", "m", "e", "-", "d", "e", "p", "s", ":", "5", ".", "0", "\n", "\n", "W", "O", "R", "K", "D", "I", "R", " ", "/", "a", "p", "p", "\n">>,
     <<"F", "R", "O", "M", " ", "n", "g", "i", "n", "x">>}

StageInputs ==
    {Join(ls, "\n") : ls \in UNION {[1..n -> DockerfileLines] : n \in 1..MaxLines}}
    \cup TestedDockerfiles

InitStages ==
    /\ Idle
    /\ call \in {[fn |-> "getFromImagePathsFromDockerfile", args |-> <<t>>,
                  done |-> FALSE, result |-> <<>>] : t \in StageInputs}

\* fromImagePaths, err := getFromImagePathsFromDockerfile(targetDockerfile)
CallGetFromImagePathsFromDockerfile ==
    /\ call.fn = "getFromImagePathsFromDockerfile"
    /\ ~call.done
    /\ call' = [call EXCEPT !.done = TRUE,
                            !.result = getFromImagePathsFromDockerfile(call.args[1])]
    /\ UNCHANGED mainVars

SpecStages == InitStages /\ [][CallGetFromImagePathsFromDockerfile]_vars

\* the white space within a line
LineSpace == {" ", "\t", "\r", "\f"}

\* the words of a line: its maximal runs of characters that are no white space
Words(line) ==
    LET starts == {i \in DOMAIN line :
                      line[i] \notin LineSpace /\ (i = 1 \/ line[i - 1] \in LineSpace)}
        word(i) == SubSeq(line, i, Least({j \in i..Len(line) :
                                            j = Len(line) \/ line[j + 1] \in LineSpace}))
        nth(k) == CHOOSE i \in starts : Cardinality({j \in starts : j <= i}) = k
    IN  [k \in 1..Cardinality(starts) |-> word(nth(k))]

\* the stage a line declares: none unless the line reads FROM <image-ref> or
\* FROM <image-ref> AS <alias>
StagesOfLine(line) ==
    LET w == Words(line)
    IN  IF Len(w) = 2 /\ EqualFold(w[1], <<"F", "R", "O", "M">>)
        THEN <<[imagePath |-> w[2], stageName |-> <<>>]>>
        ELSE IF /\ Len(w) = 4
                /\ EqualFold(w[1], <<"F", "R", "O", "M">>)
                /\ EqualFold(w[3], <<"A", "S">>)
        THEN <<[imagePath |-> w[2], stageName |-> w[4]]>>
        ELSE <<>>

\* the stages the lines declare, in the order of the lines
RECURSIVE StagesOfLines(_)
StagesOfLines(ls) ==
    IF ls = <<>> THEN <<>> ELSE StagesOfLine(ls[1]) \o StagesOfLines(Tail(ls))

\* C21: getFromImagePathsFromDockerfile returns one stage for every line of the
\* form FROM <image-ref> [AS <alias>] and no other, in the order of the lines,
\* each with the image reference and the alias of its line.
C21_OneStagePerFromLine ==
    (call.fn = "getFromImagePathsFromDockerfile" /\ call.done) =>
        [k \in DOMAIN call.result |->
            [imagePath |-> call.result[k].imagePath, stageName |-> call.result[k].stageName]]
        = StagesOfLines(Split(call.args[1], "\n"))

\* C22: a stage is marked as an official Docker Hub image exactly when its
\* image reference holds no slash or holds a dollar sign; nginx and
\* docker:19.03.13 are official, prom/prometheus:latest and
\* mcr.microsoft.com/dotnet/runtime-deps:5.0 are not.
C22_OfficialWithoutSlashOrWithDollar ==
    (call.fn = "getFromImagePathsFromDockerfile" /\ call.done) =>
        \A k \in DOMAIN call.result :
            LET image == call.result[k].imagePath
            IN  /\ call.result[k].isOfficialDockerHubImage <=>
                       \/ \A i \in DOMAIN image : image[i] # "/"
                       \/ \E i \in DOMAIN image : image[i] = "$"
                /\ image \in {<<"n", "g", "i", "n", "x">>,
                              <<"d", "o", "c", "k", "e", "r", ":", "1", "9", ".", "0", "3", ".", "1", "3">>}
                       => call.result[k].isOfficialDockerHubImage
                /\ image \in {<<"p", "r", "o", "m", "/", "p", "r", "o", "m", "e", "t", "h", "e", "u", "s", ":", "l", "a", "t", "e", "s", "t">>,
                              <<"m", "c", "r", ".", "m", "i", "c", "r", "o", "s", "o", "f", "t", ".", "c", "o", "m", "/", "d", "o", "t", "n", "e", "t", "/", "r", "u", "n", "t", "i", "m", "e", "-", "d", "e", "p", "s", ":", "5", ".", "0">>}
                       => ~call.result[k].isOfficialDockerHubImage

\* a Dockerfile with an image with a slash and a placeholder, marked official,
\* and an image with a slash and no placeholder, marked not official
C22_Witness ==
    /\ call.fn = "getFromImagePathsFromDockerfile" /\ call.done
    /\ Len(call.result) = 2
    /\ call.result[1].imagePath = <<"$", "r", "/", "i">> /\ call.result[1].isOfficialDockerHubImage
    /\ call.result[2].imagePath = <<"g", "/", "o", "/", "b">> /\ ~call.result[2].isOfficialDockerHubImage

\* the text of the Dockerfile as it was supplied, inline or in a file
suppliedDockerfile ==
    CASE dockerfileSource = "inline" -> cfg.inlineDockerfile
      [] dockerfileSource = "dockerfile" -> cfg.dockerfileOnDisk.content
      [] dockerfileSource = "template" -> cfg.templateOnDisk.content
      [] OTHER -> <<>>

\* the build action has taken the stages from its Dockerfile
StagesExtracted ==
    /\ cfg.action = "build"
    /\ repositoriesAreValid
    /\ dockerfileSource # "none"
    /\ pc \notin {"start", "build"}

\* C23: for a Dockerfile that begins with a byte-order-mark directly followed
\* by a FROM line, read from a file or supplied inline, the build action works
\* with the stages of the text without the byte-order-mark.
C23_ByteOrderMarkIsStripped ==
    (/\ StagesExtracted
     /\ Len(suppliedDockerfile) > 4
     /\ suppliedDockerfile[1] = BOM
     /\ SubSeq(suppliedDockerfile, 2, 5) = <<"F", "R", "O", "M">>) =>
        LET text == Tail(suppliedDockerfile)
        IN  fromImagePaths = getFromImagePathsFromDockerfile(
                                 IF cfg.expandEnvironmentVariables
                                 THEN expandEnvironmentVariablesIfSet(text) ELSE text)

\* the repository prefixes of the images for which there is a credential
CredentialedPrefixes(credentials, containerImages) ==
    {RepoPortion(containerImages[n]) : n \in DOMAIN containerImages}
        \cap {credentials[i].repository : i \in DOMAIN credentials}

\* C24: getCredentialsForContainers returns one entry for every repository
\* prefix of the images that has a credential, however many images share the
\* prefix; the entry is keyed by the prefix and holds a credential of the list
\* whose repository is that prefix.
C24_OneEntryPerRepositoryPrefix ==
    (call.fn = "getCredentialsForContainers" /\ call.done) =>
        LET credentials == call.args.credentials
            containerImages == call.args.containerImages
            found == call.result
        IN  /\ DOMAIN found = CredentialedPrefixes(credentials, containerImages)
            /\ Cardinality(DOMAIN found) <= Len(containerImages)
            /\ \A n, m \in DOMAIN containerImages :
                   (/\ n # m
                    /\ RepoPortion(containerImages[n]) = RepoPortion(containerImages[m])
                    /\ RepoPortion(containerImages[n]) \in DOMAIN found)
                       => Cardinality(DOMAIN found) < Len(containerImages)
            /\ \A key \in DOMAIN found :
                   /\ found[key].repository = key
                   /\ \E i \in DOMAIN credentials : credentials[i] = found[key]

\* two different images under the prefix g/o and two credentials for g/o: one
\* entry is returned
C24_Witness ==
    /\ call.fn = "getCredentialsForContainers" /\ call.done
    /\ call.args.containerImages = <<<<"g", "/", "o", "/", "c", ":", "1">>,
                                     <<"g", "/", "o", "/", "d", ":", "2">>>>
    /\ call.args.credentials = <<CredGO, CredGODenied>>
    /\ DOMAIN call.result = {RepoGO}

\* the image references the commands of the log and the command in flight name
ImagesNamed ==
    UNION ({FlagValues(log[k], "") : k \in Commands("pull")}
           \cup {FlagValues(c, "") \ {<<"i", "m", "a", "g", "e">>, <<"h", "i", "s", "t", "o", "r", "y">>} :
                    c \in {log[k] : k \in Commands("history")} \cup {c \in inflight : c.verb = "history"}}
           \cup {Range(c.images) : c \in {log[k] : k \in Commands("login")}})

\* C25: with an empty list of repositories every action but history ends
\* fatally before any command is issued; the history action runs, and the
\* image it names is <container> or <container>:<tag>, without a prefix.
C25_EmptyRepositoriesOnlyForHistory ==
    (cfg.repositories = <<>> /\ pc # "start") =>
        IF cfg.action # "history"
        THEN /\ exit = [status |-> "fatal", kind |-> "configuration"]
             /\ log = <<>> /\ inflight = {}
        ELSE /\ exit.kind # "configuration"
             /\ ImagesNamed \subseteq
                    {IF cfg.tag = <<>> THEN container ELSE container \o <<":">> \o cfg.tag}
             /\ Terminated => Commands("history") # {}

\* the history of c:d was shown for an empty list of repositories
C25_Witness ==
    /\ cfg.repositories = <<>>
    /\ cfg.action = "history"
    /\ Succeeded
    /\ \E k \in Commands("history") : <<"c", ":", "d">> \in FlagValues(log[k], "")

(***************************************************************************)
(* expandEnvironmentVariablesIfSet on its own, for Dockerfiles made of     *)
(* ${NAME} tokens and plain text.                                          *)
(***************************************************************************)

\* the most pieces of an enumerated Dockerfile
MaxPieces == 3

\* ${NAME} tokens
TokenX == <<"$", "{", "X", "}">>
TokenY == <<"$", "{", "Y", "}">>
TokenPath == <<"$", "{", "P", "A", "T", "H", "}">>
TokenE == <<"$", "{", "E", "}">>

\* tokens and text without placeholders
DockerfilePieces == {TokenX, TokenY, TokenPath, TokenE, <<"F", "R", "O", "M", " ">>, <<"/", "i", "\n">>}

\* X and PATH have a value, E is set to the empty string, Y is not set
ExpandEnv ==
    (<<"X">> :> <<"g", "/", "p">>) @@ (<<"P", "A", "T", "H">> :> <<"/", "b", "i", "n">>) @@ (<<"E">> :> <<>>)

\* the values of --dont-expand
DontExpandLists == {<<"P", "A", "T", "H">>, <<"P", "A", "T", "H", ",", "X">>, <<>>}

RECURSIVE Flatten(_)
Flatten(pieces) == IF pieces = <<>> THEN <<>> ELSE pieces[1] \o Flatten(Tail(pieces))

InitExpand ==
    /\ cfg \in {[DefaultCfg EXCEPT !.action = "build", !.env = ExpandEnv, !.dontExpand = d] :
                   d \in DontExpandLists}
    /\ pc = "call"
    /\ idx = 1
    /\ tidx = 1
    /\ log = <<>>
    /\ exit = [status |-> "running", kind |-> ""]
    /\ fromImagePaths = <<>>
    /\ dockerLayerCachingPaths = <<>>
    /\ bucketName = <<>>
    /\ inflight = {}
    /\ signal = FALSE
    /\ call \in {[fn |-> "expandEnvironmentVariablesIfSet", args |-> <<Flatten(ps), ps>>,
                  done |-> FALSE, result |-> <<>>] :
                    ps \in SeqsUpTo(DockerfilePieces, MaxPieces)}

\* targetDockerfile = expandEnvironmentVariablesIfSet(sourceDockerfile, dontExpand)
CallExpandEnvironmentVariablesIfSet ==
    /\ call.fn = "expandEnvironmentVariablesIfSet"
    /\ ~call.done
    /\ call' = [call EXCEPT !.done = TRUE,
                            !.result = expandEnvironmentVariablesIfSet(call.args[1])]
    /\ UNCHANGED mainVars

SpecExpand == InitExpand /\ [][CallExpandEnvironmentVariablesIfSet]_vars

\* the names on the exclusion list
Excluded == Range(Split(cfg.dontExpand, ","))

\* the name of a ${NAME} token
NameOf(token) == SubSeq(token, 3, Len(token) - 1)

\* the name has a value in the environment that is not the empty string
HasValue(name) == name \in DOMAIN cfg.env /\ cfg.env[name] # <<>>

\* what is to be written for a piece of the Dockerfile
Written(piece) ==
    IF Len(piece) > 3 /\ SubSeq(piece, 1, 2) = <<"$", "{">>
       /\ HasValue(NameOf(piece)) /\ NameOf(piece) \notin Excluded
    THEN cfg.env[NameOf(piece)]
    ELSE piece

\* C26: every ${NAME} token is replaced by the value of NAME when NAME has a
\* value and is not on the exclusion list, and is written as the literal
\* ${NAME}, never as the empty string, when NAME is excluded or has no value;
\* all other text is kept, so a Dockerfile whose tokens all name excluded or
\* unset names is written unchanged.
C26_ExpandReplacesSetNamesOnly ==
    (call.fn = "expandEnvironmentVariablesIfSet" /\ call.done) =>
        LET pieces == call.args[2]
        IN  /\ call.result = Flatten([k \in DOMAIN pieces |-> Written(pieces[k])])
            /\ (\A k \in DOMAIN pieces :
                    pieces[k] \in {TokenX, TokenY, TokenPath, TokenE} =>
                        (NameOf(pieces[k]) \in Excluded \/ NameOf(pieces[k]) \notin DOMAIN cfg.env))
                   => call.result = call.args[1]

\* X is replaced by its value next to a token of the excluded PATH and a token
\* of the unset Y, which are written as they are
C26_Witness ==
    /\ call.fn = "expandEnvironmentVariablesIfSet" /\ call.done
    /\ cfg.dontExpand = <<"P", "A", "T", "H">>
    /\ call.args[2] = <<TokenX, TokenPath, TokenY>>
    /\ call.result = <<"g", "/", "p", "$", "{", "P", "A", "T", "H", "}", "$", "{", "Y", "}">>

\* no element occurs twice in the sequence
Distinct(seq) == \A i, j \in DOMAIN seq : seq[i] = seq[j] => i = j

\* C27: for lists of different repositories and of different tags, no image
\* reference is emitted twice within one action, for whichever repository of
\* the list: no reference is the target of two tag commands or of two push
\* commands, and none is twice among the --tag arguments of a build command.
C27_NoReferenceEmittedTwice ==
    (/\ cfg.action \in {"build", "push", "tag"}
     /\ Distinct(repositoriesSlice) /\ Distinct(tagsSlice)) =>
        /\ \A j, k \in Commands("push") : log[j].args = log[k].args => j = k
        /\ \A j, k \in Commands("tag") : log[j].args[2] = log[k].args[2] => j = k
        /\ \A k \in Commands("build") :
               \A i, j \in DOMAIN log[k].args :
                   (log[k].args[i].f = "--tag" /\ log[k].args[i] = log[k].args[j]) => i = j

\* C28: every docker tag command of the push and tag actions, completed or
\* running, takes as its source the version-tagged reference of the first
\* repository, and never a reference of another repository or of another tag.
C28_EveryTagIsFromTheCanonicalSource ==
    cfg.action \in {"push", "tag"} =>
        LET source == Arg("", SourceRef)
        IN  /\ \A k \in Commands("tag") :
                   /\ Len(log[k].args) = 2
                   /\ log[k].args[1] = source
            /\ \A c \in inflight : c.verb = "tag" => c.args[1] = source

\* a push or tag action has tagged the additional tag of the
\* second repository after its version tag, both from the canonical source
C28_Witness ==
    /\ cfg.action \in {"push", "tag"} /\ Succeeded
    /\ repositoriesSlice = <<RepoGO, RepoE>>
    /\ tagsSlice = <<TagDev>>
    /\ \E j, k \in Commands("tag") :
           /\ j < k
           /\ log[j].args = <<Arg("", SourceRef), Arg("", Ref(2, VersionTag))>>
           /\ log[k].args = <<Arg("", SourceRef), Arg("", Ref(2, TagDev))>>

\* the stages that are built with caching enabled, by their positions in the
\* Dockerfile from position k on: the aliased stages before the last, and the last
RECURSIVE BuiltStages(_)
BuiltStages(k) ==
    IF k > Len(fromImagePaths) THEN <<>>
    ELSE (IF k = Len(fromImagePaths) \/ fromImagePaths[k].stageName # <<>>
          THEN <<k>> ELSE <<>>) \o BuiltStages(k + 1)

\* the cache reference of the stage at position k: dlc for the last stage and
\* dlc-<alias> for a stage before it
CacheRef(k) ==
    ImagePath(repositoriesSlice[1], container,
              IF k = Len(fromImagePaths) THEN Dlc
              ELSE Dlc \o <<"-">> \o fromImagePaths[k].stageName)

\* the build commands of the log, in the order in which they were run
BuildsRun == SelectSeq(log, LAMBDA c : c.verb = "build")

CachingEnabled == cfg.action = "build" /\ ~cfg.noCache /\ cfg.goos # "windows"

\* C29: with caching enabled the build commands are, in the order of the
\* Dockerfile, one per aliased stage before the last, with --target <alias> and
\* the only tag <first repository>/<container>:dlc-<alias>, and then the build
\* of the last stage, without a target; a stage before the last without an
\* alias is not built; and unless the cache push is disabled the command that
\* follows a build is the push of the cache image of its stage.
C29_AliasedStagesAreBuiltInOrder ==
    CachingEnabled =>
        /\ Len(BuildsRun) <= Len(BuiltStages(1))
        /\ \A n \in DOMAIN BuildsRun :
               LET k == BuiltStages(1)[n]
               IN  /\ CacheRef(k) \in FlagValues(BuildsRun[n], "--tag")
                   /\ IF k = Len(fromImagePaths)
                      THEN FlagValues(BuildsRun[n], "--target") = {}
                      ELSE /\ FlagValues(BuildsRun[n], "--target") = {fromImagePaths[k].stageName}
                           /\ FlagValues(BuildsRun[n], "--tag") = {CacheRef(k)}
        /\ Succeeded => Len(BuildsRun) = Len(BuiltStages(1))
        /\ ~cfg.noCachePush =>
               \A j \in Commands("build") :
                   LET n == Cardinality({i \in Commands("build") : i <= j})
                   IN  j < Len(log) =>
                           /\ log[j + 1].verb = "push"
                           /\ log[j + 1].args = <<Arg("", CacheRef(BuiltStages(1)[n]))>>

\* the four-stage Dockerfile was built with the cache pushed: the builds of s
\* and t and of the last stage, each followed by the push of its cache image,
\* and no build of the second stage, which has no alias
C29_Witness ==
    /\ CachingEnabled /\ ~cfg.noCachePush /\ Succeeded
    /\ Len(fromImagePaths) = 4
    /\ BuiltStages(1) = <<1, 3, 4>>
    /\ \E j \in DOMAIN log :
           /\ Len(log) >= j + 5
           /\ [i \in 1..6 |-> log[j + i - 1].verb]
                  = <<"build", "push", "build", "push", "build", "push">>
           /\ FlagValues(log[j], "--target") = {<<"s">>}
           /\ FlagValues(log[j + 2], "--target") = {<<"t">>}
           /\ FlagValues(log[j + 1], "") = {ImagePath(RepoGO, container, <<"d", "l", "c", "-", "s">>)}
           /\ FlagValues(log[j + 5], "") = {ImagePath(RepoGO, container, Dlc)}

\* the values a command carries for a flag, in the order of its arguments
FlagSequence(cmd, f) ==
    LET as == SelectSeq(cmd.args, LAMBDA a : a.f = f)
    IN  [k \in DOMAIN as |-> as[k].v]

\* C30: with caching enabled, the --cache-from arguments of the n-th build
\* command are the cache references of the first n stages that are built, in
\* the order of the stages: those of the aliased stages built before it and,
\* last, its own; the reference of a later stage is not among them.
C30_CacheFromIsTheStagesBuiltSoFar ==
    CachingEnabled =>
        \A n \in DOMAIN BuildsRun :
            /\ n <= Len(BuiltStages(1))
            /\ FlagSequence(BuildsRun[n], "--cache-from")
                   = [i \in 1..n |-> CacheRef(BuiltStages(1)[i])]
            /\ \A i \in DOMAIN BuiltStages(1) :
                   (i > n /\ \A j \in 1..n : CacheRef(BuiltStages(1)[j]) # CacheRef(BuiltStages(1)[i]))
                       => CacheRef(BuiltStages(1)[i]) \notin FlagValues(BuildsRun[n], "--cache-from")

\* the last stage of the four-stage Dockerfile was built with the caches of s
\* and t and its own, after the build of t with the caches of s and t
C30_Witness ==
    /\ CachingEnabled
    /\ BuiltStages(1) = <<1, 3, 4>>
    /\ Len(BuildsRun) = 3
    /\ FlagSequence(BuildsRun[2], "--cache-from")
           = <<ImagePath(RepoGO, container, <<"d", "l", "c", "-", "s">>),
               ImagePath(RepoGO, container, <<"d", "l", "c", "-", "t">>)>>
    /\ FlagSequence(BuildsRun[3], "--cache-from")
           = <<ImagePath(RepoGO, container, <<"d", "l", "c", "-", "s">>),
               ImagePath(RepoGO, container, <<"d", "l", "c", "-", "t">>),
               ImagePath(RepoGO, container, Dlc)>>

\* the images of the stages from position k on that are not flagged official,
\* in the order of the stages
RECURSIVE NonOfficialImages(_)
NonOfficialImages(k) ==
    IF k > Len(fromImagePaths) THEN <<>>
    ELSE (IF fromImagePaths[k].isOfficialDockerHubImage THEN <<>>
          ELSE <<fromImagePaths[k].imagePath>>) \o NonOfficialImages(k + 1)

\* the sequence without the elements that occur earlier in it
FirstOccurrences(seq) ==
    LET firsts == {i \in DOMAIN seq : \A j \in 1..(i - 1) : seq[j] # seq[i]}
    IN  [n \in 1..Cardinality(firsts) |->
            seq[CHOOSE i \in firsts : Cardinality({j \in firsts : j <= i}) = n]]

\* the images pulled, in the order of the pull commands
PullsRun ==
    LET ps == SelectSeq(log, LAMBDA c : c.verb = "pull")
    IN  [n \in DOMAIN ps |-> TargetOf(ps[n])]

\* C31: the pulls of the build action are those of the distinct images of the
\* stages that are not flagged official, in the order of the stages and each
\* image once, all of them before the first build command; the pull of an image
\* for which a credential is resolved directly follows the login with that
\* credential; and no image flagged official is pulled or logged in for.
C31_EveryDistinctBaseImageIsPulledOnce ==
    cfg.action = "build" =>
        /\ IsPrefix(PullsRun, FirstOccurrences(NonOfficialImages(1)))
        /\ Commands("build") # {} => PullsRun = FirstOccurrences(NonOfficialImages(1))
        /\ \A k \in Commands("pull") : \A b \in Commands("build") : k < b
        /\ \A k \in Commands("pull") :
               (\E i \in DOMAIN cfg.credentials :
                    cfg.credentials[i].repository = RepoPortion(TargetOf(log[k])))
                   => /\ k > 1
                      /\ log[k - 1].verb = "login"
                      /\ TargetOf(log[k - 1]) = TargetOf(log[k])
        /\ \A k \in Commands("pull") \cup Commands("login") :
               \A i \in DOMAIN fromImagePaths :
                   fromImagePaths[i].isOfficialDockerHubImage
                       => TargetOf(log[k]) # fromImagePaths[i].imagePath

\* the credential resolved for an image: the first of the list whose repository
\* is the repository portion of the image
ResolvedFor(image) ==
    LET cs == {i \in DOMAIN cfg.credentials :
                  cfg.credentials[i].repository = RepoPortion(image)}
    IN  IF cs = {} THEN <<>> ELSE <<cfg.credentials[Least(cs)]>>

\* the login that is in force on the registry host of credential c when the
\* command at position k of the log is run carries the user and password of c
LoggedInWith(c, k) ==
    LET hosts == HostsOf(c)
        logins == {j \in 1..(k - 1) :
                      /\ log[j].verb = "login" /\ log[j].code = 0
                      /\ FlagValues(log[j], "") = hosts}
    IN  /\ logins # {}
        /\ LET last == log[Greatest(logins)]
           IN  /\ FlagValues(last, "--username") = {c.username}
               /\ FlagValues(last, "--password") = {c.password}

\* C32: when an image is pulled or pushed and a credential is resolved for its
\* repository, one the pipeline is allowed to push with in the case of a push,
\* the last login before it on the registry host of that credential was made
\* with that credential, whatever other repositories of the same host were
\* logged in to earlier in the action.  The push action of src/main.go pushes
\* the cache image of the first repository after the login for the repository
\* its loop is at.
C32_LastLoginOnTheHostIsTheImagesOwn ==
    /\ \A k \in Commands("pull") \cup Commands("push") :
           LET resolved == ResolvedFor(TargetOf(log[k]))
           IN  \A n \in DOMAIN resolved :
                   (log[k].verb = "push" =>
                        isAllowedPipelineForPush(resolved[n], fullRepositoryPath))
                       => LoggedInWith(resolved[n], k)
    /\ \A x \in inflight :
           x.verb \in {"pull", "push"} =>
               LET resolved == ResolvedFor(TargetOf(x))
               IN  \A n \in DOMAIN resolved :
                       (x.verb = "push" =>
                            isAllowedPipelineForPush(resolved[n], fullRepositoryPath))
                           => LoggedInWith(resolved[n], Len(log) + 1)

\* the positions of the log at which an image with tag t was pushed
PushesOfTag(t) ==
    {k \in Commands("push") : TagOf(TargetOf(log[k])) = t}

\* C33: a push action that ends successfully has pushed the cache image when
\* caching is enabled and the cache push is not suppressed, and has pushed no
\* cache image when caching is disabled or the cache push is suppressed.
C33_PushActionPushesTheCache ==
    (cfg.action = "push" /\ Succeeded) =>
        IF ~cfg.noCache /\ ~cfg.noCachePush
        THEN PushesOfTag(Dlc) # {}
        ELSE PushesOfTag(Dlc) = {}

\* the credential resolved for the image may be used by this pipeline for a push
AllowedFor(image) ==
    LET resolved == ResolvedFor(image)
    IN  \A n \in DOMAIN resolved : isAllowedPipelineForPush(resolved[n], fullRepositoryPath)

\* the logins of the log that come before a push: all of the push action, those
\* after the pull of the source in the tag action, and in a build that pushes
\* its cache the login for the image that is built
LoginsBeforePush ==
    CASE cfg.action = "push" -> Commands("login")
      [] cfg.action = "tag" -> {k \in Commands("login") : \E j \in Commands("pull") : j < k}
      [] cfg.action = "build" /\ ~cfg.noCachePush ->
             LET images == <<SourceRef>>
             IN  {k \in Commands("login") : log[k].images = images}
      [] OTHER -> {}

\* the command at position k of the log comes directly after a login made for
\* the image, if a credential is resolved for the image
AfterLoginFor(image, k) ==
    LET resolved == ResolvedFor(image)
    IN  resolved # <<>> =>
            /\ k > 1
            /\ log[k - 1].verb = "login" /\ log[k - 1].images = <<image>>
            /\ FlagValues(log[k - 1], "--password") = {resolved[1].password}

\* C34: a login that comes before a push is made only with a credential the
\* allow-list admits for the pipeline, while the logins before a pull (of the
\* base images of a build, of the source of the tag action and of the history
\* action) and the login of a build that does not push its cache are made with
\* the resolved credential whatever its allow-list.
C34_AllowListOnlyBeforeAPush ==
    /\ \A k \in LoginsBeforePush : AllowedFor(log[k].images[1])
    /\ cfg.action \in {"build", "tag"} =>
           \A k \in Commands("pull") : AfterLoginFor(TargetOf(log[k]), k)
    /\ (cfg.action = "history" /\ Commands("history") # {}) =>
           AfterLoginFor(TargetOf(log[Least(Commands("history"))]), Least(Commands("history")))
    /\ (cfg.action = "build" /\ cfg.noCachePush /\ Commands("build") # {}) =>
           AfterLoginFor(SourceRef, Least(Commands("build")))

\* a tag action has logged in for the pull of its source with a credential the
\* allow-list denies, and has gone on to tag and push without a further login
C34_Witness ==
    /\ cfg.action = "tag" /\ Succeeded
    /\ ~AllowedFor(SourceRef)
    /\ Len(log) = 4
    /\ [k \in 1..4 |-> log[k].verb] = <<"login", "pull", "tag", "push">>
    /\ log[1].images = <<SourceRef>>

\* the repository prefix p covers whole path segments of the repository portion r
SegmentPrefix(p, r) == p = r \/ HasPrefix(r, p \o <<"/">>)

\* the positions of the credentials whose repository is such a prefix for the image
PrefixCredentials(credentials, image) ==
    {i \in DOMAIN credentials : SegmentPrefix(credentials[i].repository, RepoPortion(image))}

\* C35: for every image for which some credentials have a repository that is a
\* whole-segment prefix of the repository portion of the image, the map that
\* getCredentialsForContainers returns holds a credential with the longest of
\* those prefixes.
C35_LongestPrefixIsSelected ==
    (call.fn = "getCredentialsForContainers" /\ call.done) =>
        \A n \in DOMAIN call.args.containerImages :
            LET credentials == call.args.credentials
                ps == PrefixCredentials(credentials, call.args.containerImages[n])
            IN  ps # {} =>
                    \E i \in ps :
                        /\ \A j \in ps :
                               Len(credentials[j].repository) <= Len(credentials[i].repository)
                        /\ credentials[i].repository \in DOMAIN call.result
                        /\ call.result[credentials[i].repository].repository
                               = credentials[i].repository

\* the prefix, the build version and the suffix put together with their dashes
ComposedVersion ==
    (IF cfg.versionTagPrefix # <<>> THEN cfg.versionTagPrefix \o <<"-">> ELSE <<>>)
    \o cfg.estafetteBuildVersion
    \o (IF cfg.versionTagSuffix # <<>> THEN <<"-">> \o cfg.versionTagSuffix ELSE <<>>)

\* the primary image with the tag that tidyTag makes of the composed string
PrimaryRef == ImagePath(repositoriesSlice[1], container, tidyTag(ComposedVersion))

\* C36: the version tag is tidyTag of the whole string <prefix>-<version>-<suffix>,
\* an absent prefix or suffix left out with its dash, and it is the tag of the
\* primary image in all three actions: the image the push action pushes for
\* the first repository, the image the tag action pulls, and the image the
\* final build tags.
C36_VersionTagIsTheTidiedWhole ==
    /\ estafetteBuildVersionAsTag = tidyTag(ComposedVersion)
    /\ (cfg.action = "push" /\ cfg.pushVersionTag /\ Commands("push") # {}) =>
           TargetOf(log[Least(Commands("push"))]) = PrimaryRef
    /\ cfg.action = "push" =>
           \A k \in Commands("tag") : log[k].args[1].v = PrimaryRef
    /\ cfg.action = "tag" =>
           /\ \A k \in Commands("pull") : TargetOf(log[k]) = PrimaryRef
           /\ \A k \in Commands("tag") : log[k].args[1].v = PrimaryRef
    /\ cfg.action = "build" =>
           \A k \in FinalBuilds : PrimaryRef \in FlagValues(log[k], "--tag")

\* a build with a prefix that ends in characters no tag may hold and a version
\* that passes the maximum length has tagged the primary image with the first
\* 128 characters of the tidied whole
C36_Witness ==
    /\ cfg.action = "build"
    /\ cfg.versionTagPrefix = <<"p", "+", "/">>
    /\ Len(cfg.estafetteBuildVersion) > MaxTagLength
    /\ cfg.versionTagSuffix = <<"s">>
    /\ Len(estafetteBuildVersionAsTag) = MaxTagLength
    /\ SubSeq(estafetteBuildVersionAsTag, 1, 4) = <<"p", "-", "-", "a">>
    /\ \E k \in FinalBuilds : log[k].code = 0

\* the positions of the log at which the scanner was run
ScansRun == {k \in Commands("image") : log[k].prog = "/trivy"}

\* C37: a run of the scanner that ends otherwise than with success, the
\* tolerated exit or the exit for vulnerabilities found ends the build as a
\* failed command, and the build ends with the outcome for vulnerabilities,
\* the one with the guidance on fixing them, only when the scanner has ended
\* with the exit for vulnerabilities found.
C37_BreachOnlyWhenVulnerabilitiesFound ==
    cfg.action = "build" =>
        /\ \A k \in ScansRun :
               log[k].code \notin {0, 1, VulnerabilityExitCode} =>
                   exit = [status |-> "fatal", kind |-> "command"]
        /\ exit.kind = "vulnerability" =>
               \E k \in ScansRun : log[k].code = VulnerabilityExitCode

\* C38: in the build action the download of the scanner database reads only
\* credentials that exist: for every number of repositories and of credentials
\* the action does not end in an out-of-range access to the credentials, and
\* once the final build has succeeded and the action has ended otherwise than
\* by a failed command or a missing temporary file, the image was saved for the
\* scan.
C38_DatabaseDownloadReadsExistingCredentials ==
    cfg.action = "build" =>
        /\ exit.status # "panic"
        /\ pc = "build_db" => idx > Len(repositoriesSlice) \/ idx \in DOMAIN cfg.credentials
        /\ (/\ cfg.goos # "windows"
            /\ Terminated
            /\ exit.kind \notin {"command", "tempfile"}
            /\ \E k \in FinalBuilds : log[k].code = 0) => Commands("save") # {}

\* the Dockerfile the build works with holds no FROM line the extractor finds
NoStagesFound ==
    /\ cfg.action = "build"
    /\ repositoriesAreValid
    /\ dockerfileSource # "none"
    /\ getFromImagePathsFromDockerfile(targetDockerfile) = <<>>

\* C39: a build whose Dockerfile yields no stage ends fatally at the
\* extraction: as long as the build has no stages it has issued no command at
\* all, so no login, pull or build, it is not beyond the extraction unless it
\* has ended, and it has ended fatally; and a build that is beyond the
\* extraction and has issued a command has found a stage in its Dockerfile.
C39_NoStagesIsFatalBeforeAnyCommand ==
    cfg.action = "build" =>
        /\ fromImagePaths = <<>> =>
               /\ log = <<>> /\ inflight = {}
               /\ pc \in {"start", "build", "exit"}
               /\ pc = "exit" => exit = [status |-> "fatal", kind |-> "configuration"]
        /\ (Len(log) = 1 /\ inflight = {}) => ~NoStagesFound

\* a build with credentials for its repository has ended fatally on a
\* Dockerfile without a FROM line
C39_Witness ==
    /\ cfg.inlineDockerfile = DockerfileNoFrom
    /\ cfg.credentials = OpenCredentials
    /\ pc = "exit" /\ exit.status = "fatal"
    /\ log = <<>>
    /\ NoStagesFound

\* the cache references of the stages that are built
BuiltCacheRefs ==
    LET built == BuiltStages(1)
    IN  {CacheRef(built[n]) : n \in DOMAIN built}

\* the images of the push commands, completed or running
PushTargets ==
    {TargetOf(log[k]) : k \in Commands("push")}
    \cup {TargetOf(c) : c \in {c \in inflight : c.verb = "push"}}

\* the references of the version tag and of the additional tags in all repositories
ReleaseRefs ==
    {Ref(n, t) : n \in DOMAIN repositoriesSlice,
                 t \in {estafetteBuildVersionAsTag} \cup Range(tagsSlice)}

\* C40 (as stated): the build action pushes cache references of the first
\* repository only, never a reference of the version tag or of an additional
\* tag, and nothing when noCache or noCachePush is set.
C40_BuildNeverPushesAListedTag ==
    cfg.action = "build" =>
        /\ PushTargets \subseteq BuiltCacheRefs
        /\ PushTargets \cap ReleaseRefs = {}
        /\ (cfg.noCache \/ cfg.noCachePush) => PushTargets = {}

\* C40 (amended): the build action pushes cache references of the first
\* repository only, and nothing when noCache or noCachePush is set; a reference
\* of the version tag or of an additional tag is pushed only when that tag is
\* itself the cache tag of a stage that is built, as with the additional tag dlc.
C40_BuildPushesOnlyCacheReferences ==
    cfg.action = "build" =>
        LET targets == PushTargets
        IN  targets # {} =>
                LET cacheRefs == BuiltCacheRefs
                IN  /\ targets \subseteq cacheRefs
                    /\ \A n \in DOMAIN repositoriesSlice :
                           \A t \in {estafetteBuildVersionAsTag} \cup Range(tagsSlice) :
                               Ref(n, t) \in targets =>
                                   /\ repositoriesSlice[n] = repositoriesSlice[1]
                                   /\ Ref(1, t) \in cacheRefs
                    /\ ~cfg.noCache /\ ~cfg.noCachePush

\* a build of two stages for two repositories with the additional tag d has
\* ended successfully: the cache images of both stages were pushed and no
\* reference of the version tag or of d
C40_Witness ==
    /\ cfg.action = "build" /\ Succeeded
    /\ Len(repositoriesSlice) = 2
    /\ tagsSlice = <<TagDev>>
    /\ Len(fromImagePaths) = 2
    /\ PushTargets = {ImagePath(repositoriesSlice[1], container, <<"d", "l", "c", "-", "s">>),
                      ImagePath(repositoriesSlice[1], container, Dlc)}
    /\ PushTargets \cap ReleaseRefs = {}

====
